---- MODULE Spec2Model ----
(***************************************************************************)
(* A model of the rust-c64 emulator: the 6510 micro-coded state machine    *)
(* (src/src/cpu/mod.rs), the status register, the bus / address decoder    *)
(* (src/src/bus.rs) and the peripheral register files (src/src/io).        *)
(***************************************************************************)
EXTENDS Integers, Sequences, FiniteSets, TLC

VARIABLES
    cpu,              \* the Cpu struct (cpu/mod.rs:59-83), plus `panicked`
    ram,              \* system RAM: [fill, ovl] = a background byte and the cells that differ
    program,          \* the byte sequence the driver placed at RESET_VECTOR_ADDR
    overflow_checks,  \* build profile: TRUE = integer overflow panics (debug), FALSE = wraps
    kernal_rom,       \* Bus.kernal_rom, indexed by offset in the ROM
    basic_rom,        \* Bus.basic_rom
    char_rom,         \* Bus.char_rom
    color_ram,        \* Bus.color_ram, indexed 0..1023
    vic,              \* the Vic struct
    sid,              \* the Sid struct
    cia_1,            \* Bus.cia_1
    cia_2,            \* Bus.cia_2
    fatal,            \* a panic outside the CPU (bus / peripheral) has ended the process
    last_op,          \* the last bus transaction performed and what it observed
    ops,              \* how many decoder operations have been applied
    screen,           \* Bus::run's `screen`: the pixel indices painted so far
    frames,           \* the frames sent on screen_tx and not yet received, oldest first
    run_cycles,       \* Bus::run's local `cycles`
    host,             \* main's loop: where it is and what it has seen (main.rs:244-294)
    emu_at,           \* Bus::run's loop: "top" before try_recv, "body" after it,
                      \* "stdin" in the debugger's read_line, "send" before the
                      \* end of the pass
    mode,             \* Bus.mode: "Run", "DebugRun" or "DebugStep"
    input_events      \* the events sent on event_tx and not yet received, oldest first

vars == <<cpu, ram, program, overflow_checks, kernal_rom, basic_rom, char_rom,
          color_ram, vic, sid, cia_1, cia_2, fatal, last_op, ops, screen, frames,
          run_cycles, host, emu_at, mode, input_events>>

\* The host record of the specifications that run no host loop
NoHost == [at |-> "none", quit |-> FALSE, panicked |-> FALSE]

\* ------------------------------------------------------------------------
\* Fixed-width arithmetic helpers (u8 / u16)
\* ------------------------------------------------------------------------

RECURSIVE BitAnd(_, _)
BitAnd(a, b) ==
    IF a = 0 \/ b = 0 THEN 0
    ELSE (a % 2) * (b % 2) + 2 * BitAnd(a \div 2, b \div 2)

RECURSIVE BitOr(_, _)
BitOr(a, b) ==
    IF a = 0 THEN b
    ELSE IF b = 0 THEN a
    ELSE (IF (a % 2) + (b % 2) > 0 THEN 1 ELSE 0) + 2 * BitOr(a \div 2, b \div 2)

RECURSIVE BitXor(_, _)
BitXor(a, b) ==
    IF a = 0 THEN b
    ELSE IF b = 0 THEN a
    ELSE ((a + b) % 2) + 2 * BitXor(a \div 2, b \div 2)

\* u8 / u16 wrapping arithmetic
Wrap8(n) == n % 256
Wrap16(n) == n % 65536
Not8(v) == 255 - v
RotL8(v) == ((v * 2) % 256) + (v \div 128)
RotR8(v) == (v \div 2) + ((v % 2) * 128)

\* ------------------------------------------------------------------------
\* Sparse byte images: a background value and the cells that differ from it
\* ------------------------------------------------------------------------

ImgNew(fillv) == [fill |-> fillv, ovl |-> <<>>]

ImgAt(img, a) == IF a \in DOMAIN img.ovl THEN img.ovl[a] ELSE img.fill

ImgSet(img, a, v) ==
    IF v = img.fill
    THEN [img EXCEPT !.ovl = [k \in (DOMAIN img.ovl) \ {a} |-> img.ovl[k]]]
    ELSE [img EXCEPT !.ovl = [k \in (DOMAIN img.ovl) \cup {a} |->
                                  IF k = a THEN v ELSE img.ovl[k]]]

RECURSIVE ImgLoad(_, _, _, _)
ImgLoad(img, base, bytes, i) ==
    IF i > Len(bytes) THEN img
    ELSE ImgLoad(ImgSet(img, base + i - 1, bytes[i]), base, bytes, i + 1)

\* ------------------------------------------------------------------------
\* StatusRegister (cpu/status_register.rs)
\* ------------------------------------------------------------------------

sr_new ==
    [negative |-> FALSE, overflow |-> FALSE, expansion |-> FALSE, break_cmd |-> FALSE,
     decimal |-> FALSE, int_disable |-> FALSE, zero_result |-> FALSE, carry |-> FALSE]

sr_from_u8(value) ==
    [negative    |-> BitAnd(value, 128) = 128,
     overflow    |-> BitAnd(value, 64) = 64,
     expansion   |-> BitAnd(value, 32) = 32,
     break_cmd   |-> BitAnd(value, 16) = 16,
     decimal     |-> BitAnd(value, 8) = 8,
     int_disable |-> BitAnd(value, 4) = 4,
     zero_result |-> BitAnd(value, 2) = 2,
     carry       |-> BitAnd(value, 1) = 1]

sr_to_u8(sr) ==
      (IF sr.negative THEN 128 ELSE 0) + (IF sr.overflow THEN 64 ELSE 0)
    + (IF sr.expansion THEN 32 ELSE 0) + (IF sr.break_cmd THEN 16 ELSE 0)
    + (IF sr.decimal THEN 8 ELSE 0) + (IF sr.int_disable THEN 4 ELSE 0)
    + (IF sr.zero_result THEN 2 ELSE 0) + (IF sr.carry THEN 1 ELSE 0)

sr_compare(sr, a, b) ==
    [sr EXCEPT !.negative = Wrap8(a - b + 256) > 128,
               !.zero_result = (a = b),
               !.carry = (a >= b)]

determine_zero(sr, value) == [sr EXCEPT !.zero_result = (value = 0)]

determine_negative(sr, value) == [sr EXCEPT !.negative = (BitAnd(value, 128) = 128)]

determine_carry(sr, value) == [sr EXCEPT !.carry = (BitAnd(value, 128) = 128)]

\* zero then negative (or negative then zero: they touch different flags)
determine_zn(sr, value) == determine_negative(determine_zero(sr, value), value)

\* ------------------------------------------------------------------------
\* Opcode::from_u8 (cpu/opcode.rs is not part of the sources: the documented
\* 6502 opcode table, and the undocumented opcodes do_instr handles)
\* ------------------------------------------------------------------------

OpcodeTable ==
    [ADC |-> {\h69, \h65, \h75, \h6D, \h7D, \h79, \h61, \h71},
     AND |-> {\h29, \h25, \h35, \h2D, \h3D, \h39, \h21, \h31},
     ASL |-> {\h0A, \h06, \h16, \h0E, \h1E},
     BCC |-> {\h90}, BCS |-> {\hB0}, BEQ |-> {\hF0}, BIT |-> {\h24, \h2C},
     BMI |-> {\h30}, BNE |-> {\hD0}, BPL |-> {\h10}, BRK |-> {\h00},
     BVC |-> {\h50}, BVS |-> {\h70},
     CLC |-> {\h18}, CLD |-> {\hD8}, CLI |-> {\h58}, CLV |-> {\hB8},
     CMP |-> {\hC9, \hC5, \hD5, \hCD, \hDD, \hD9, \hC1, \hD1},
     CPX |-> {\hE0, \hE4, \hEC}, CPY |-> {\hC0, \hC4, \hCC},
     DEC |-> {\hC6, \hD6, \hCE, \hDE}, DEX |-> {\hCA}, DEY |-> {\h88},
     EOR |-> {\h49, \h45, \h55, \h4D, \h5D, \h59, \h41, \h51},
     INC |-> {\hE6, \hF6, \hEE, \hFE}, INX |-> {\hE8}, INY |-> {\hC8},
     JMP |-> {\h4C, \h6C}, JSR |-> {\h20},
     LDA |-> {\hA9, \hA5, \hB5, \hAD, \hBD, \hB9, \hA1, \hB1},
     LDX |-> {\hA2, \hA6, \hB6, \hAE, \hBE},
     LDY |-> {\hA0, \hA4, \hB4, \hAC, \hBC},
     LSR |-> {\h4A, \h46, \h56, \h4E, \h5E},
     NOP |-> {\hEA},
     ORA |-> {\h09, \h05, \h15, \h0D, \h1D, \h19, \h01, \h11},
     PHA |-> {\h48}, PHP |-> {\h08}, PLA |-> {\h68}, PLP |-> {\h28},
     ROL |-> {\h2A, \h26, \h36, \h2E, \h3E},
     ROR |-> {\h6A, \h66, \h76, \h6E, \h7E},
     RTI |-> {\h40}, RTS |-> {\h60},
     SBC |-> {\hE9, \hE5, \hF5, \hED, \hFD, \hF9, \hE1, \hF1},
     SEC |-> {\h38}, SED |-> {\hF8}, SEI |-> {\h78},
     STA |-> {\h85, \h95, \h8D, \h9D, \h99, \h81, \h91},
     STX |-> {\h86, \h96, \h8E}, STY |-> {\h84, \h94, \h8C},
     TAX |-> {\hAA}, TAY |-> {\hA8}, TSX |-> {\hBA}, TXA |-> {\h8A},
     TXS |-> {\h9A}, TYA |-> {\h98},
     ALR |-> {\h4B}, ANC |-> {\h0B, \h2B}, ARR |-> {\h6B}, AXS |-> {\hCB},
     DCP |-> {\hC7, \hD7, \hCF, \hDF, \hDB, \hC3, \hD3},
     LAX |-> {\hA7, \hB7, \hAF, \hBF, \hA3, \hB3},
     SAX |-> {\h87, \h97, \h8F, \h83},
     KIL |-> {\h02, \h12, \h22, \h32, \h42, \h52, \h62, \h72, \h92, \hB2, \hD2, \hF2}]

\* Every other byte decodes to an opcode the interpreter does not implement
\* (do_instr's catch-all arm).
Opcode_from_u8(code) ==
    IF \E m \in DOMAIN OpcodeTable : code \in OpcodeTable[m]
    THEN CHOOSE m \in DOMAIN OpcodeTable : code \in OpcodeTable[m]
    ELSE "UNIMPLEMENTED"

\* ------------------------------------------------------------------------
\* Cpu (cpu/mod.rs)
\* ------------------------------------------------------------------------

RESET_VECTOR_ADDR == \hFCE2
STACK_START_ADDR == \h0100
IRQ_VEC_LO_ADDR == \hFFFE

\* Cpu::new.  `panicked` records that a panic!() unwound out of the CPU.
Cpu_new ==
    [pc |-> 0, a |-> 0, x |-> 0, y |-> 0, sr |-> sr_new, sp |-> 0,
     dataport |-> 0, data_direction_reg |-> 0,
     cycles |-> 0, curr_op |-> "KIL",
     addr_lo |-> 0, addr_hi |-> 0,
     rw |-> TRUE, addr_enable |-> FALSE, addr_bus |-> 0, data_bus |-> 0,
     stack_word_ready |-> FALSE, stack_word |-> 0, state |-> "Halt",
     irq |-> FALSE, panicked |-> FALSE]

\* reset as it would be if it left the processor port alone
reset_without_port(c) ==
    [c EXCEPT !.pc = RESET_VECTOR_ADDR, !.a = \hAA, !.x = 0, !.y = 0, !.sp = \hFD,
              !.addr_bus = RESET_VECTOR_ADDR, !.addr_enable = TRUE, !.rw = TRUE,
              !.state = "Fetch"]

reset(c) ==
    [c EXCEPT !.pc = RESET_VECTOR_ADDR, !.a = \hAA, !.x = 0, !.y = 0, !.sp = \hFD,
              !.data_direction_reg = \h2F, !.dataport = \h37,
              !.addr_bus = RESET_VECTOR_ADDR, !.addr_enable = TRUE, !.rw = TRUE,
              !.state = "Fetch"]

set_addr_bus(c, addr) ==
    [c EXCEPT !.addr_bus = addr, !.addr_enable = TRUE, !.rw = TRUE]

set_data_bus(c, value) == [c EXCEPT !.data_bus = value, !.rw = FALSE]

data_in(c, value) == IF c.rw THEN [c EXCEPT !.data_bus = value] ELSE c

data_out(c) == c.data_bus

write_ddr(c, value) == [c EXCEPT !.data_direction_reg = value]

read_ddr(c) == c.data_direction_reg

write_dataport(c, value) ==
    [c EXCEPT !.dataport = BitAnd(c.data_direction_reg, value)]

read_dataport(c) == c.dataport

get_stack_addr(c) == c.sp + STACK_START_ADDR

addr_from_hi_lo(c) == c.addr_hi * 256 + c.addr_lo

PcStates ==
    {"Fetch", "AddressLo", "AddressLoX", "AddressLoY", "AddressHi", "AddressHiX",
     "AddressHiY", "AddressZeropage", "AddressZeropageX", "AddressZeropageY",
     "Immediate", "Implied"}

increment_pc(c) ==
    IF c.state \in PcStates
    THEN set_addr_bus([c EXCEPT !.pc = Wrap16(c.pc + 1)], Wrap16(c.pc + 1))
    ELSE c

relative_branch(c) ==
    LET offset == c.data_bus
        npc == IF offset < 128 THEN Wrap16(c.pc + offset)
               ELSE Wrap16(c.pc + 65536 - (256 - offset))
    IN set_addr_bus([c EXCEPT !.pc = npc], npc)

panic(c) == [c EXCEPT !.panicked = TRUE]

\* Cpu::trigger_interrupt (its body is not part of cpu/mod.rs): asserts the IRQ
\* flag, `irq`
trigger_interrupt(c) == [c EXCEPT !.irq = TRUE]

\* `self.state = self.do_instr(debug)`: the instruction's effect, then the state it returns
goto(c, s) == [c EXCEPT !.state = s]

\* a register load / transfer that sets Z and N from the new value
with_zn(c, value) == [c EXCEPT !.sr = determine_zn(c.sr, value)]

op_ADC(c) ==
    LET old_sign == BitAnd(c.a, 128)
        result == c.a + c.data_bus
        na == Wrap8(c.a + c.data_bus)
        sr1 == [c.sr EXCEPT !.carry = IF c.sr.decimal THEN result > 99 ELSE result > 255,
                            !.overflow = (old_sign # BitAnd(na, 128))]
    IN goto([c EXCEPT !.a = na, !.sr = determine_zero(sr1, na)], "Fetch")

op_SBC(c) ==
    LET m == c.data_bus
        data == IF c.sr.carry THEN Not8(m) ELSE Wrap8(Not8(m) + 1)
        na == Wrap8(c.a + data)
        result == na - m
        sr1 == [c.sr EXCEPT !.carry = (m > c.a)]
        sr2 == determine_zero(determine_negative(sr1, na), na)
        sr3 == [sr2 EXCEPT !.overflow = (result < -128 \/ result > 127)]
    IN goto([c EXCEPT !.a = na, !.sr = sr3], "Fetch")

Shl8(v) == (v * 2) % 256
Shr8(v) == v \div 2

\* ASL (left) / LSR: carry is taken by determine_carry, then the value is shifted
op_shift(c, left) ==
    IF c.state = "Implied"
    THEN LET na == IF left THEN Shl8(c.a) ELSE Shr8(c.a)
         IN goto([c EXCEPT !.a = na, !.sr = determine_zn(determine_carry(c.sr, c.a), na)],
                 "Fetch")
    ELSE LET data == IF left THEN Shl8(c.data_bus) ELSE Shr8(c.data_bus)
             c1 == [c EXCEPT !.sr = determine_zn(determine_carry(c.sr, c.data_bus), data)]
         IN goto(set_data_bus(c1, data), "Store")

\* ROL (left) / ROR: negative from the old value, zero and carry from the rotated value
op_rotate(c, left) ==
    IF c.state = "Implied"
    THEN LET na == IF left THEN RotL8(c.a) ELSE RotR8(c.a)
             sr1 == determine_carry(determine_zero(determine_negative(c.sr, c.a), na), na)
         IN goto([c EXCEPT !.a = na, !.sr = sr1], "Fetch")
    ELSE LET data == IF left THEN RotL8(c.data_bus) ELSE RotR8(c.data_bus)
             sr1 == determine_carry(determine_zero(determine_negative(c.sr, c.data_bus),
                                                   data), data)
         IN goto(set_data_bus([c EXCEPT !.sr = sr1], data), "Store")

\* op_branch as it would be if a branch not taken spent a cycle in ToLoad
op_branch_slow(c, taken) ==
    IF taken THEN goto(relative_branch(c), "Fetch") ELSE goto(c, "ToLoad")

\* BCC, BEQ, BMI, BNE, BPL, BVC, BVS
op_branch(c, taken) ==
    goto(IF taken THEN relative_branch(c) ELSE c, "Fetch")

\* BCS: `self.pc += 2` is a checked addition in a debug build
op_BCS(c) ==
    IF c.pc + 2 > 65535 /\ overflow_checks
    THEN panic(c)
    ELSE LET c1 == [c EXCEPT !.pc = Wrap16(c.pc + 2)]
         IN goto(IF c1.sr.carry THEN relative_branch(c1) ELSE c1, "Fetch")

op_BIT(c) ==
    LET data == c.data_bus
        na == BitAnd(c.a, data)
        sr1 == [c.sr EXCEPT !.overflow = (BitAnd(data, 128) = 128)]
    IN goto([c EXCEPT !.a = na,
                      !.sr = determine_zero(determine_negative(sr1, data), na)], "Fetch")

op_BRK(c) ==
    IF c.state = "Implied"
    THEN goto([c EXCEPT !.stack_word_ready = FALSE, !.stack_word = Wrap16(c.pc + 2)],
              "PushWordHi")
    ELSE IF c.state = "ToLoad"
    THEN IF ~c.stack_word_ready
         THEN LET sp == get_stack_addr(c)
                  c1 == set_addr_bus([c EXCEPT !.stack_word_ready = TRUE,
                                               !.sp = Wrap8(c.sp + 255)], sp)
                  c2 == set_data_bus(c1, BitOr(sr_to_u8(c.sr), 24))
              IN goto([c2 EXCEPT !.sr.int_disable = TRUE], "Store")
         ELSE goto(set_addr_bus([c EXCEPT !.pc = IRQ_VEC_LO_ADDR], IRQ_VEC_LO_ADDR),
                   "AddressLo")
    ELSE goto([c EXCEPT !.pc = addr_from_hi_lo(c)], "Fetch")

\* DEC / INC: the flags come from the byte that was read, the bus gets the new byte
op_incdec(c, delta) ==
    LET data == Wrap8(c.data_bus + delta)
        c1 == [c EXCEPT !.sr = determine_zero(determine_negative(c.sr, c.data_bus),
                                              c.data_bus)]
    IN goto(set_data_bus(c1, data), "Store")

op_JMP(c) == goto([c EXCEPT !.pc = addr_from_hi_lo(c)], "Fetch")

op_JSR(c) ==
    goto([c EXCEPT !.stack_word = c.pc, !.pc = addr_from_hi_lo(c)], "PushWordHi")

\* PHA / PHP: set_data_bus, then set_addr_bus (which puts rw back to read)
op_push(c, value) ==
    LET c1 == set_data_bus(c, value)
        c2 == set_addr_bus(c1, get_stack_addr(c1))
    IN goto([c2 EXCEPT !.sp = Wrap8(c2.sp + 255)], "Store")

\* PLA / PLP, first half: `self.sp.wrapping_add(1);` discards its result
op_pull_addr(c) == goto(set_addr_bus(c, get_stack_addr(c)), "Load")

op_PLA(c) ==
    IF c.state = "Implied" THEN op_pull_addr(c)
    ELSE goto(with_zn([c EXCEPT !.a = c.data_bus], c.data_bus), "Fetch")

op_PLP(c) ==
    IF c.state = "Implied" THEN op_pull_addr(c)
    ELSE goto([c EXCEPT !.sr = sr_from_u8(c.data_bus)], "Fetch")

op_RTS(c) ==
    IF c.stack_word_ready
    THEN goto([c EXCEPT !.pc = c.stack_word, !.stack_word_ready = FALSE], "ToLoad")
    ELSE goto(c, "PullWordLo")

op_store(c, value) == goto(set_data_bus(c, value), "Store")

op_ALR(c) ==
    LET m == BitAnd(c.a, c.data_bus)
        na == Shr8(m)
    IN goto([c EXCEPT !.a = na, !.sr = determine_zn(determine_carry(c.sr, m), na)], "Fetch")

op_ANC(c) ==
    LET na == BitAnd(c.a, c.data_bus)
        sr1 == determine_zn(c.sr, na)
    IN goto([c EXCEPT !.a = na, !.sr = [sr1 EXCEPT !.carry = sr1.negative]], "Fetch")

op_ARR(c) ==
    LET m == BitAnd(c.a, c.data_bus)
        na == RotR8(m)
        sr1 == determine_zero(determine_negative(c.sr, m), na)
        sr2 == [sr1 EXCEPT !.carry = (BitAnd(na, 64) = 64),
                           !.overflow = (BitAnd(BitXor(na, Shl8(na)), 32) = 32)]
    IN goto([c EXCEPT !.a = na, !.sr = sr2], "Fetch")

op_AXS(c) ==
    LET na == Wrap8(BitAnd(c.a, c.x) + 256 - c.data_bus)
    IN goto([c EXCEPT !.a = na, !.sr = determine_carry(determine_zn(c.sr, na), na)], "Fetch")

op_DCP(c) ==
    LET na == Wrap8(c.a + 255)
        data == Wrap8(c.data_bus + 255)
    IN goto([c EXCEPT !.a = na, !.sr = sr_compare(determine_zn(c.sr, data), na, data)],
            "Fetch")

do_instr(c) ==
    LET op == c.curr_op
        m == c.data_bus
    IN CASE op = "ADC" -> op_ADC(c)
         [] op = "AND" -> goto(with_zn([c EXCEPT !.a = BitAnd(c.a, m)], BitAnd(c.a, m)), "Fetch")
         [] op = "ASL" -> op_shift(c, TRUE)
         [] op = "BCC" -> op_branch(c, ~c.sr.carry)
         [] op = "BCS" -> op_BCS(c)
         [] op = "BEQ" -> op_branch(c, c.sr.zero_result)
         [] op = "BIT" -> op_BIT(c)
         [] op = "BMI" -> op_branch(c, c.sr.negative)
         [] op = "BNE" -> op_branch(c, ~c.sr.zero_result)
         [] op = "BPL" -> op_branch(c, ~c.sr.negative)
         [] op = "BRK" -> op_BRK(c)
         [] op = "BVC" -> op_branch(c, ~c.sr.overflow)
         [] op = "BVS" -> op_branch(c, c.sr.overflow)
         [] op = "CLC" -> goto([c EXCEPT !.sr.carry = FALSE], "Fetch")
         [] op = "CLD" -> goto([c EXCEPT !.sr.decimal = FALSE], "Fetch")
         [] op = "CLI" -> goto([c EXCEPT !.sr.int_disable = FALSE], "Fetch")
         [] op = "CLV" -> goto([c EXCEPT !.sr.overflow = FALSE], "Fetch")
         [] op = "CMP" -> goto([c EXCEPT !.sr = sr_compare(c.sr, c.a, m)], "Fetch")
         [] op = "CPX" -> goto([c EXCEPT !.sr = sr_compare(c.sr, c.x, m)], "Fetch")
         [] op = "CPY" -> goto([c EXCEPT !.sr = sr_compare(c.sr, c.y, m)], "Fetch")
         [] op = "DEC" -> op_incdec(c, 255)
         [] op = "DEX" -> goto(with_zn([c EXCEPT !.x = Wrap8(c.x + 255)], Wrap8(c.x + 255)), "Fetch")
         [] op = "DEY" -> goto(with_zn([c EXCEPT !.y = Wrap8(c.y + 255)], Wrap8(c.y + 255)), "Fetch")
         [] op = "EOR" -> goto(with_zn([c EXCEPT !.a = BitXor(c.a, m)], BitXor(c.a, m)), "Fetch")
         [] op = "INC" -> op_incdec(c, 1)
         [] op = "INX" -> goto(with_zn([c EXCEPT !.x = Wrap8(c.x + 1)], Wrap8(c.x + 1)), "Fetch")
         [] op = "INY" -> goto(with_zn([c EXCEPT !.y = Wrap8(c.y + 1)], Wrap8(c.y + 1)), "Fetch")
         [] op = "JMP" -> op_JMP(c)
         [] op = "JSR" -> op_JSR(c)
         [] op = "LDA" -> goto(with_zn([c EXCEPT !.a = m], m), "Fetch")
         [] op = "LDX" -> goto(with_zn([c EXCEPT !.x = m], m), "Fetch")
         [] op = "LDY" -> goto(with_zn([c EXCEPT !.y = m], m), "Fetch")
         [] op = "LSR" -> op_shift(c, FALSE)
         [] op = "NOP" -> goto(c, "Fetch")
         [] op = "ORA" -> goto(with_zn([c EXCEPT !.a = BitOr(c.a, m)], BitOr(c.a, m)), "Fetch")
         [] op = "PHA" -> op_push(c, c.a)
         [] op = "PHP" -> op_push(c, sr_to_u8(c.sr))
         [] op = "PLA" -> op_PLA(c)
         [] op = "PLP" -> op_PLP(c)
         [] op = "ROL" -> op_rotate(c, TRUE)
         [] op = "ROR" -> op_rotate(c, FALSE)
         [] op = "RTI" -> panic(c)
         [] op = "RTS" -> op_RTS(c)
         [] op = "SBC" -> op_SBC(c)
         [] op = "SEC" -> goto([c EXCEPT !.sr.carry = TRUE], "Fetch")
         [] op = "SED" -> goto([c EXCEPT !.sr.decimal = TRUE], "Fetch")
         [] op = "SEI" -> goto([c EXCEPT !.sr.int_disable = TRUE], "Fetch")
         [] op = "STA" -> op_store(c, c.a)
         [] op = "STX" -> op_store(c, c.x)
         [] op = "STY" -> op_store(c, c.y)
         [] op = "TAX" -> goto(with_zn([c EXCEPT !.x = c.a], c.a), "Fetch")
         [] op = "TAY" -> goto(with_zn([c EXCEPT !.y = c.a], c.a), "Fetch")
         [] op = "TYA" -> goto(with_zn([c EXCEPT !.a = c.y], c.y), "Fetch")
         [] op = "TSX" -> goto(with_zn([c EXCEPT !.x = c.sp], c.sp), "Fetch")
         [] op = "TXA" -> goto(with_zn([c EXCEPT !.a = c.x], c.x), "Fetch")
         [] op = "TXS" -> goto([c EXCEPT !.sp = c.x], "Fetch")
         [] op = "ALR" -> op_ALR(c)
         [] op = "ANC" -> op_ANC(c)
         [] op = "ARR" -> op_ARR(c)
         [] op = "AXS" -> op_AXS(c)
         [] op = "DCP" -> op_DCP(c)
         [] op = "LAX" -> goto(with_zn([c EXCEPT !.a = m, !.x = m], m), "Fetch")
         [] op = "SAX" -> op_store(c, BitAnd(c.a, c.x))
         [] op = "KIL" -> goto(c, "Halt")
         [] OTHER -> panic(c)

\* Cpu::addressing_mode: the micro-state that follows the opcode on the data bus;
\* "PANIC" stands for the panic!() of the catch-all arm (column 0xF)
addressing_mode(c) ==
    LET row == c.data_bus \div 16
        col == c.data_bus % 16
        odd == (row % 2 = 1)
    IN CASE col = 0 ->
              IF odd \/ row > 7 THEN "Immediate"
              ELSE IF row \in {0, 4, 6} THEN "Implied" ELSE "AddressLo"
         [] col \in {1, 3} ->
              IF odd THEN "AddressIndirectIndexed" ELSE "AddressIndexedIndirect"
         [] col = 2 -> IF row \in {8, 10, 12, 14} THEN "Immediate" ELSE "Halt"
         [] col \in {4, 5} -> IF odd THEN "AddressZeropageX" ELSE "AddressZeropage"
         [] col = 6 ->
              IF ~odd THEN "AddressZeropage"
              ELSE IF row = 9 THEN "AddressZeropageY" ELSE "AddressZeropageX"
         [] col = 7 ->
              IF ~odd THEN "AddressZeropage"
              ELSE IF row \in {9, 10} THEN "AddressZeropageY" ELSE "AddressZeropageX"
         [] col \in {8, 10} -> "Implied"
         [] col \in {9, 11} -> IF ~odd THEN "Immediate" ELSE "AddressLoY"
         [] col \in {12, 13} -> IF odd THEN "AddressLoX" ELSE "AddressLo"
         [] col = 14 ->
              IF ~odd THEN "AddressLo"
              ELSE IF row \in {9, 10} THEN "AddressLoY" ELSE "AddressLoX"
         [] OTHER -> "PANIC"

\* decode as it would be if a jam opcode were executed like an immediate one
decode_past_halt(c) ==
    LET c1 == [c EXCEPT !.curr_op = Opcode_from_u8(c.data_bus)]
        m == addressing_mode(c1)
    IN IF m = "PANIC" THEN panic(c1)
       ELSE goto(c1, IF m = "Halt" THEN "Immediate" ELSE m)

\* `self.curr_op = Opcode::from_u8(..); self.state = self.addressing_mode();`
decode(c) ==
    LET c1 == [c EXCEPT !.curr_op = Opcode_from_u8(c.data_bus)]
    IN IF addressing_mode(c1) = "PANIC" THEN panic(c1)
       ELSE goto(c1, addressing_mode(c1))

\* ToLoad: back to read mode (BRK re-enters do_instr instead)
step_to_load(c) ==
    IF c.curr_op # "BRK" THEN goto(set_addr_bus(c, c.pc), "Fetch") ELSE do_instr(c)

\* Implied: execute, and when the instruction is complete decode the byte on the
\* data bus as the next opcode in the same cycle
step_implied(c) ==
    LET d == do_instr(c)
    IN IF ~d.panicked /\ d.state = "Fetch" THEN decode(d) ELSE d

step_immediate(c) == do_instr(c)

step_load(c) ==
    LET d == do_instr(c)
    IN IF ~d.panicked /\ d.state = "Fetch" THEN set_addr_bus(d, d.pc) ELSE d

\* step_store as it would be if the write cycle returned straight to Fetch
step_store_to_fetch(c) == goto([c EXCEPT !.rw = FALSE], "Fetch")

step_store(c) == goto([c EXCEPT !.rw = FALSE], "ToLoad")

\* AddressZeropage | AddressZeropageX | AddressZeropageY
step_zeropage(c) ==
    LET c1 == [c EXCEPT !.addr_hi = 0, !.addr_lo = c.data_bus]
        c2 == set_addr_bus(c1, addr_from_hi_lo(c1))
    IN goto(c2, CASE c.state = "AddressZeropageX" -> "AddressZeropageXAdd"
                  [] c.state = "AddressZeropageY" -> "AddressZeropageYAdd"
                  [] OTHER -> "Load")

\* AddressZeropageXAdd | AddressZeropageYAdd
step_zeropage_add(c, index) ==
    LET c1 == [c EXCEPT !.addr_lo = Wrap8(c.addr_lo + index)]
    IN goto(set_addr_bus(c1, addr_from_hi_lo(c1)), "Load")

\* AddressLo | AddressLoX | AddressLoY
step_address_lo(c, next) == goto([c EXCEPT !.addr_lo = c.data_bus], next)

\* AddressHi | AddressHiX | AddressHiY
step_address_hi(c, index) ==
    LET c1 == [c EXCEPT !.addr_hi = c.data_bus]
    IN goto(set_addr_bus(c1, Wrap16(addr_from_hi_lo(c1) + index)), "Load")

step_push_word_hi(c) ==
    LET c1 == set_addr_bus(c, get_stack_addr(c))
        c2 == set_data_bus(c1, c.stack_word \div 256)
    IN goto([c2 EXCEPT !.sp = Wrap8(c.sp + 255)], "PushWordLo")

step_push_word_lo(c) ==
    LET c1 == set_addr_bus(c, get_stack_addr(c))
        c2 == set_data_bus(c1, c.stack_word % 256)
    IN goto([c2 EXCEPT !.sp = Wrap8(c.sp + 255)], "ToLoad")

step_pull_word_lo(c) ==
    LET c1 == [c EXCEPT !.sp = Wrap8(c.sp + 1)]
        c2 == set_addr_bus(c1, get_stack_addr(c1))
    IN goto([c2 EXCEPT !.stack_word_ready = FALSE, !.stack_word = 0], "PullWordHi")

\* stack_word <= 0xff when the high byte is added: the u16 addition cannot overflow
step_pull_word_hi(c) ==
    IF c.stack_word_ready
    THEN goto([c EXCEPT !.stack_word = c.stack_word + c.data_bus * 256], "Immediate")
    ELSE LET c1 == [c EXCEPT !.sp = Wrap8(c.sp + 1)]
             c2 == set_addr_bus(c1, get_stack_addr(c1))
         IN [c2 EXCEPT !.stack_word = c.data_bus, !.stack_word_ready = TRUE]

\* AddressIndexedIndirect, ..Add, ..Lo, ..Hi : (zp,X)
step_indexed_indirect(c) ==
    CASE c.state = "AddressIndexedIndirect" ->
           LET c1 == [c EXCEPT !.addr_hi = 0, !.addr_lo = c.data_bus]
           IN goto(set_addr_bus(c1, addr_from_hi_lo(c1)), "AddressIndexedIndirectAdd")
      [] c.state = "AddressIndexedIndirectAdd" ->
           goto(set_addr_bus(c, Wrap16(c.addr_bus + c.x)), "AddressIndexedIndirectLo")
      [] c.state = "AddressIndexedIndirectLo" ->
           goto(set_addr_bus([c EXCEPT !.addr_lo = c.data_bus], Wrap16(c.addr_bus + 1)),
                "AddressIndexedIndirectHi")
      [] OTHER ->
           LET c1 == [c EXCEPT !.addr_hi = c.data_bus]
           IN goto(set_addr_bus(c1, addr_from_hi_lo(c1)), "Load")

\* AddressIndirectIndexed, ..Lo, ..Hi, ..PageCross : (zp),Y
step_indirect_indexed(c) ==
    CASE c.state = "AddressIndirectIndexed" ->
           LET c1 == [c EXCEPT !.addr_hi = 0, !.addr_lo = c.data_bus]
           IN goto(set_addr_bus(c1, addr_from_hi_lo(c1)), "AddressIndirectIndexedLo")
      [] c.state = "AddressIndirectIndexedLo" ->
           LET addr == c.addr_hi * 256 + Wrap8(c.addr_lo + 1)
           IN goto(set_addr_bus([c EXCEPT !.addr_lo = c.data_bus], addr),
                   "AddressIndirectIndexedHi")
      [] c.state = "AddressIndirectIndexedHi" ->
           LET c1 == [c EXCEPT !.addr_hi = c.data_bus, !.addr_lo = Wrap8(c.addr_lo + c.y)]
               c2 == set_addr_bus(c1, addr_from_hi_lo(c1))
           IN goto(c2, IF c1.addr_lo + c1.y > 255
                       THEN "AddressIndirectIndexedPageCross" ELSE "Load")
      [] OTHER ->
           LET c1 == [c EXCEPT !.addr_hi = Wrap8(c.addr_hi + 1)]
           IN goto(set_addr_bus(c1, addr_from_hi_lo(c1)), "Load")

\* Cpu::cycle.  A panic leaves `cycles` as it was.
cycle(c) ==
    LET c1 == increment_pc(c)
        s == c1.state
        r == CASE s = "ToLoad" -> step_to_load(c1)
               [] s = "Fetch" -> decode(c1)
               [] s = "Implied" -> step_implied(c1)
               [] s = "Immediate" -> step_immediate(c1)
               [] s = "Load" -> step_load(c1)
               [] s = "Store" -> step_store(c1)
               [] s \in {"AddressZeropage", "AddressZeropageX", "AddressZeropageY"} ->
                    step_zeropage(c1)
               [] s = "AddressZeropageXAdd" -> step_zeropage_add(c1, c1.x)
               [] s = "AddressZeropageYAdd" -> step_zeropage_add(c1, c1.y)
               [] s = "AddressLo" -> step_address_lo(c1, "AddressHi")
               [] s = "AddressLoX" -> step_address_lo(c1, "AddressHiX")
               [] s = "AddressLoY" -> step_address_lo(c1, "AddressHiY")
               [] s = "AddressHi" -> step_address_hi(c1, 0)
               [] s = "AddressHiX" -> step_address_hi(c1, c1.x)
               [] s = "AddressHiY" -> step_address_hi(c1, c1.y)
               [] s = "PushWordHi" -> step_push_word_hi(c1)
               [] s = "PushWordLo" -> step_push_word_lo(c1)
               [] s = "PullWordHi" -> step_pull_word_hi(c1)
               [] s = "PullWordLo" -> step_pull_word_lo(c1)
               [] s \in {"AddressIndexedIndirect", "AddressIndexedIndirectAdd",
                         "AddressIndexedIndirectLo", "AddressIndexedIndirectHi"} ->
                    step_indexed_indirect(c1)
               [] s \in {"AddressIndirectIndexed", "AddressIndirectIndexedLo",
                         "AddressIndirectIndexedHi", "AddressIndirectIndexedPageCross"} ->
                    step_indirect_indexed(c1)
               [] OTHER -> panic(c1)
    IN IF r.panicked THEN r ELSE [r EXCEPT !.cycles = c.cycles + 1]

\* ------------------------------------------------------------------------
\* Peripheral register files (io/mod.rs, io/vic.rs, io/sid.rs, io/cia.rs)
\* ------------------------------------------------------------------------

\* the value a translate_addr that panicked, or a read that panicked, stands for
PANICKED == 0 - 1

write_low_byte(word, byte) == BitAnd(word, \hF0) + byte

write_high_byte(word, byte) == byte * 256 + (word \div 256)

VIC_MIN_CONTROL_ADDR == \hD000
VIC_MAX_CONTROL_ADDR == \hD3FF
VIC_CONTROL_REG_COUNT == \h40
HORZ_CYCLE_COUNT == 63
\* `if self.raster > 100 { self.raster = 0; }`
RASTER_LAST == 100

\* The 47 registers sx0 .. s7c in register order; regs[18] is `raster`, regs[24] is `mem`
VicRegs == 0..46

Vic_new ==
    [irq |-> TRUE, rdy |-> TRUE, aec |-> TRUE,
     regs |-> [r \in VicRegs |-> CASE r = 17 -> \h1B [] r = 22 -> \hC8 [] OTHER -> 0],
     state |-> "Idle", addr_bus |-> \h3FFF, data_bus |-> 0, matrix_pos |-> 0,
     xpos |-> 0, cycles |-> 0, raster_int |-> \hFF]

vic_translate_addr(addr) ==
    IF addr > VIC_MAX_CONTROL_ADDR \/ addr < VIC_MIN_CONTROL_ADDR THEN PANICKED
    ELSE (addr - VIC_MIN_CONTROL_ADDR) % VIC_CONTROL_REG_COUNT

vic_read_register(v, addr) ==
    LET reg == vic_translate_addr(addr)
    IN IF reg = PANICKED THEN PANICKED
       ELSE IF reg \in VicRegs THEN v.regs[reg] ELSE \hFF

\* the bits a write forces to 1 in the stored register
vic_write_mask(reg) ==
    CASE reg = 17 -> \hC0
      [] reg = 24 -> 1
      [] reg \in {25, 26} -> \h70
      [] reg \in 32..46 -> \hF0
      [] OTHER -> 0

\* register 18 is read from `raster` and written to `raster_int`
vic_write_register(v, addr, value) ==
    LET reg == vic_translate_addr(addr)
    IN CASE reg = 18 -> [v EXCEPT !.raster_int = value]
         [] reg \in VicRegs \ {18} ->
              [v EXCEPT !.regs[reg] = BitOr(value, vic_write_mask(reg))]
         [] OTHER -> v

vic_read_addr_bus(v) == BitAnd(v.addr_bus, \h40)

vic_matrix_addr(v) == BitAnd(v.regs[24], \hF0) * 64 + BitAnd(v.matrix_pos, \h3FF)

\* `self.data_bus &= 0x00ff; self.data_bus &= ((byte as u16) & 0x0f) << 8;`
vic_color_in(v, byte) ==
    [v EXCEPT !.data_bus = BitAnd(BitAnd(v.data_bus, \h00FF), BitAnd(byte, \h0F) * 256)]

\* `self.data_bus &= 0x0f00; self.data_bus &= (byte as u16);`
vic_data_in(v, byte) ==
    [v EXCEPT !.data_bus = BitAnd(BitAnd(v.data_bus, \h0F00), byte)]

vic_frame_ready(v) == v.xpos = 0 /\ v.regs[18] = 0

\* rising_edge as it would be if it returned with AEC still low
vic_rising_edge_aec_low(v) ==
    LET v1 == IF v.state = "Idle" THEN [v EXCEPT !.state = "MatrixRead"]
              ELSE [v EXCEPT !.addr_bus = vic_matrix_addr(v),
                             !.matrix_pos = Wrap16(v.matrix_pos + 1)]
        x1 == Wrap8(v1.xpos + 1)
        wrapped == (x1 = HORZ_CYCLE_COUNT)
        r1 == IF wrapped THEN Wrap8(v1.regs[18] + 1) ELSE v1.regs[18]
        r2 == IF r1 > RASTER_LAST THEN 0 ELSE r1
    IN [v1 EXCEPT !.xpos = IF wrapped THEN 0 ELSE x1,
                  !.regs[18] = r2,
                  !.aec = FALSE,
                  !.cycles = v1.cycles + 1]

\* rising_edge as it would be if xpos ran on past the end of the line
vic_rising_edge_no_line_end(v) ==
    LET v1 == IF v.state = "Idle" THEN [v EXCEPT !.state = "MatrixRead"]
              ELSE [v EXCEPT !.addr_bus = vic_matrix_addr(v),
                             !.matrix_pos = Wrap16(v.matrix_pos + 1)]
        r2 == IF v1.regs[18] > RASTER_LAST THEN 0 ELSE v1.regs[18]
    IN [v1 EXCEPT !.xpos = Wrap8(v1.xpos + 1),
                  !.regs[18] = r2,
                  !.aec = TRUE,
                  !.cycles = v1.cycles + 1]

\* Vic::rising_edge, without the pixel it paints (see rising_edge_pixel)
vic_rising_edge(v) ==
    LET v1 == IF v.state = "Idle" THEN [v EXCEPT !.state = "MatrixRead"]
              ELSE [v EXCEPT !.addr_bus = vic_matrix_addr(v),
                             !.matrix_pos = Wrap16(v.matrix_pos + 1)]
        x1 == Wrap8(v1.xpos + 1)
        wrapped == (x1 = HORZ_CYCLE_COUNT)
        r1 == IF wrapped THEN Wrap8(v1.regs[18] + 1) ELSE v1.regs[18]
        r2 == IF r1 > RASTER_LAST THEN 0 ELSE r1
    IN [v1 EXCEPT !.xpos = IF wrapped THEN 0 ELSE x1,
                  !.regs[18] = r2,
                  !.aec = TRUE,
                  !.cycles = v1.cycles + 1]

\* Vic::falling_edge has an empty body
vic_falling_edge(v) == v

SID_MIN_CONTROL_ADDR == \hD400
SID_MAX_CONTROL_ADDR == \hD7FF
SID_CONTROL_REG_COUNT == \h20

Sid_new ==
    [v1_f |-> 0, v1_pw |-> 0, v1_ctl |-> 0, v1_ad |-> 0, v1_sr |-> 0,
     v2_f |-> 0, v2_pw |-> 0, v2_ctl |-> 0, v2_ad |-> 0, v2_sr |-> 0,
     v3_f |-> 0, v3_pw |-> 0, v3_ctl |-> 0, v3_ad |-> 0, v3_sr |-> 0,
     filter_co |-> 0, filter_ctl |-> 0, vol_mode |-> 0,
     paddle_x |-> 0, paddle_y |-> 0, v3_wave |-> 0, v3_adsr |-> 0]

RECURSIVE sid_translate_addr(_)
sid_translate_addr(addr) ==
    IF addr > SID_MAX_CONTROL_ADDR \/ addr < SID_MIN_CONTROL_ADDR THEN PANICKED
    ELSE IF addr - SID_MIN_CONTROL_ADDR > SID_CONTROL_REG_COUNT
    THEN sid_translate_addr(addr - SID_CONTROL_REG_COUNT)
    ELSE addr - SID_MIN_CONTROL_ADDR

sid_read_register(s, addr) ==
    LET reg == sid_translate_addr(addr)
    IN CASE reg = PANICKED -> PANICKED
         [] reg = \h19 -> s.paddle_x
         [] reg = \h1A -> s.paddle_y
         [] reg = \h1B -> s.v3_wave
         [] reg = \h1C -> s.v3_adsr
         [] OTHER -> 0

\* the field each writable SID register number stores into
SidField ==
    [r \in 0..24 |->
        CASE r \in {0, 1} -> "v1_f" [] r \in {2, 3} -> "v1_pw"
          [] r = 4 -> "v1_ctl" [] r = 5 -> "v1_ad" [] r = 6 -> "v1_sr"
          [] r \in {7, 8} -> "v2_f" [] r \in {9, 10} -> "v2_pw"
          [] r = 11 -> "v2_ctl" [] r = 12 -> "v2_ad" [] r = 13 -> "v2_sr"
          [] r \in {14, 15} -> "v3_f" [] r \in {16, 17} -> "v3_pw"
          [] r = 18 -> "v3_ctl" [] r = 19 -> "v3_ad" [] r = 20 -> "v3_sr"
          [] r \in {21, 22} -> "filter_co"
          [] r = 23 -> "filter_ctl" [] OTHER -> "vol_mode"]

sid_write_register(s, addr, value) ==
    LET reg == sid_translate_addr(addr)
    IN CASE reg \in {0, 2, 7, 9, 14, 16} ->
              [s EXCEPT ![SidField[reg]] = write_low_byte(@, value)]
         [] reg \in {1, 3, 8, 10, 15, 17} ->
              [s EXCEPT ![SidField[reg]] = write_high_byte(@, value)]
         [] reg \in {4, 5, 6, 11, 12, 13, 18, 19, 20, 23, 24} ->
              [s EXCEPT ![SidField[reg]] = value]
         [] reg = 21 ->
              [s EXCEPT !.filter_co = BitAnd(BitAnd(@, \hF8), BitAnd(value, 7))]
         [] reg = 22 ->
              [s EXCEPT !.filter_co = BitAnd(BitAnd(@, \h07), value * 8)]
         [] OTHER -> s

CIA_CONTROL_REG_COUNT == \h10

Cia_new(base) ==
    [port_a |-> 0, port_b |-> 0, port_a_dir |-> 0, port_b_dir |-> 0,
     timer_a |-> 0, timer_b |-> 0, tod_ds |-> 0, tod_s |-> 0, tod_m |-> 0, tod_h |-> 0,
     serial_shift |-> 0, int_enable |-> 0, int_status |-> 0,
     timer_a_ctl |-> 0, timer_b_ctl |-> 0, base_addr |-> base]

\* the range check leaves only offsets 0..15, so the recursive arm is never taken
cia_translate_addr(c, addr) ==
    IF addr >= c.base_addr + CIA_CONTROL_REG_COUNT \/ addr < c.base_addr THEN PANICKED
    ELSE addr - c.base_addr

cia_read_register(c, addr) ==
    LET reg == cia_translate_addr(c, addr)
    IN CASE reg = PANICKED -> PANICKED
         [] reg = 0 -> c.port_a [] reg = 1 -> c.port_b
         [] reg = 2 -> c.port_a_dir [] reg = 3 -> c.port_b_dir
         [] reg = 4 -> BitAnd(c.timer_a, \h0F) [] reg = 5 -> (c.timer_a \div 256) % 256
         [] reg = 6 -> BitAnd(c.timer_b, \h0F) [] reg = 7 -> (c.timer_b \div 256) % 256
         [] reg = 8 -> c.tod_ds [] reg = 9 -> c.tod_s
         [] reg = 10 -> c.tod_m [] reg = 11 -> c.tod_h
         [] reg = 12 -> c.serial_shift [] reg = 13 -> c.int_status
         [] reg = 14 -> c.timer_a_ctl [] OTHER -> c.timer_b_ctl

\* the field each CIA register number stores into
CiaField ==
    [r \in 0..15 |->
        CASE r = 0 -> "port_a" [] r = 1 -> "port_b"
          [] r = 2 -> "port_a_dir" [] r = 3 -> "port_b_dir"
          [] r \in {4, 5} -> "timer_a" [] r \in {6, 7} -> "timer_b"
          [] r = 8 -> "tod_ds" [] r = 9 -> "tod_s" [] r = 10 -> "tod_m"
          [] r = 11 -> "tod_h" [] r = 12 -> "serial_shift" [] r = 13 -> "int_enable"
          [] r = 14 -> "timer_a_ctl" [] OTHER -> "timer_b_ctl"]

\* the Cia after the write (as it was when translate_addr panics: io_write then
\* marks the bus fatal)
cia_write_register(c, addr, value) ==
    LET reg == cia_translate_addr(c, addr)
    IN CASE reg = PANICKED -> c
         [] reg \in {4, 6} -> [c EXCEPT ![CiaField[reg]] = write_low_byte(@, value)]
         [] reg \in {5, 7} -> [c EXCEPT ![CiaField[reg]] = write_high_byte(@, value)]
         [] OTHER -> [c EXCEPT ![CiaField[reg]] = value]

\* ------------------------------------------------------------------------
\* Bus: the address decoder (bus.rs)
\* ------------------------------------------------------------------------

KERNAL_ROM_START == \hE000
BASIC_ROM_START == \hA000
CHAR_ROM_START == \hD000
KERNAL_ROM_SIZE == 8192
BASIC_ROM_SIZE == 8192
CHAR_ROM_SIZE == 4096
IO_START == \hD000
IO_END == \hDFFF
COLOR_RAM_START == \hD800
COLOR_RAM_END == \hDBFF
CIA1_MIN_CONTROL_ADDR == \hDC00
CIA1_MAX_CONTROL_ADDR == \hDCFF
CIA2_MIN_CONTROL_ADDR == \hDD00
CIA2_MAX_CONTROL_ADDR == \hDDFF
SCREEN_X == 320
SCREEN_Y == 240

\* The banking flags the decoder asks the CPU for (their bodies are not part of
\* cpu/mod.rs): the banking table, by the low three bits of the dataport
rom_status(c) == BitAnd(c.dataport, 7)
krom_enabled(c) == rom_status(c) \in {2, 3, 6, 7}
brom_enabled(c) == rom_status(c) \in {3, 7}
crom_enabled(c) == rom_status(c) \in {1, 2, 3}
io_enabled(c) == rom_status(c) \in {5, 6, 7}

\* The Bus struct as a value: b.cpu, b.ram, b.color_ram, the ROM images, the
\* peripherals, and `fatal` (a panic!() unwound out of the bus)
io_read(b, addr) ==
    IF addr >= VIC_MIN_CONTROL_ADDR /\ addr <= VIC_MAX_CONTROL_ADDR
    THEN vic_read_register(b.vic, addr)
    ELSE IF addr >= SID_MIN_CONTROL_ADDR /\ addr <= SID_MAX_CONTROL_ADDR
    THEN sid_read_register(b.sid, addr)
    ELSE IF addr >= COLOR_RAM_START /\ addr <= COLOR_RAM_END
    THEN ImgAt(b.color_ram, addr - COLOR_RAM_START)
    ELSE IF addr >= CIA1_MIN_CONTROL_ADDR /\ addr <= CIA1_MAX_CONTROL_ADDR
    THEN cia_read_register(b.cia_1, addr)
    ELSE IF addr >= CIA2_MIN_CONTROL_ADDR /\ addr <= CIA2_MAX_CONTROL_ADDR
    THEN cia_read_register(b.cia_2, addr)
    ELSE PANICKED

\* Bus::read_byte: the byte read, or PANICKED
read_byte(b, addr) ==
    IF addr = 0 THEN read_ddr(b.cpu)
    ELSE IF addr = 1 THEN read_dataport(b.cpu)
    ELSE IF krom_enabled(b.cpu) /\ addr >= KERNAL_ROM_START
                                /\ addr < KERNAL_ROM_START + KERNAL_ROM_SIZE
    THEN ImgAt(b.kernal_rom, addr - KERNAL_ROM_START)
    ELSE IF brom_enabled(b.cpu) /\ addr >= BASIC_ROM_START
                                /\ addr < BASIC_ROM_START + BASIC_ROM_SIZE
    THEN ImgAt(b.basic_rom, addr - BASIC_ROM_START)
    ELSE IF crom_enabled(b.cpu) /\ addr >= CHAR_ROM_START
                                /\ addr < CHAR_ROM_START + CHAR_ROM_SIZE
    THEN ImgAt(b.char_rom, addr - CHAR_ROM_START)
    ELSE IF io_enabled(b.cpu) /\ addr >= IO_START /\ addr <= IO_END
    THEN io_read(b, addr)
    ELSE ImgAt(b.ram, addr)

\* io_write with the color RAM store keeping all eight bits
io_write_color_unmasked(b, addr, value) ==
    IF addr >= VIC_MIN_CONTROL_ADDR /\ addr <= VIC_MAX_CONTROL_ADDR
    THEN [b EXCEPT !.vic = vic_write_register(b.vic, addr, value)]
    ELSE IF addr >= SID_MIN_CONTROL_ADDR /\ addr <= SID_MAX_CONTROL_ADDR
    THEN [b EXCEPT !.sid = sid_write_register(b.sid, addr, value)]
    ELSE IF addr >= COLOR_RAM_START /\ addr <= COLOR_RAM_END
    THEN [b EXCEPT !.color_ram = ImgSet(b.color_ram, addr - COLOR_RAM_START, value)]
    ELSE IF addr >= CIA1_MIN_CONTROL_ADDR /\ addr <= CIA1_MAX_CONTROL_ADDR
    THEN IF cia_translate_addr(b.cia_1, addr) = PANICKED
         THEN [b EXCEPT !.fatal = TRUE]
         ELSE [b EXCEPT !.cia_1 = cia_write_register(b.cia_1, addr, value)]
    ELSE IF addr >= CIA2_MIN_CONTROL_ADDR /\ addr <= CIA2_MAX_CONTROL_ADDR
    THEN IF cia_translate_addr(b.cia_2, addr) = PANICKED
         THEN [b EXCEPT !.fatal = TRUE]
         ELSE [b EXCEPT !.cia_2 = cia_write_register(b.cia_2, addr, value)]
    ELSE [b EXCEPT !.fatal = TRUE]

io_write(b, addr, value) ==
    IF addr >= VIC_MIN_CONTROL_ADDR /\ addr <= VIC_MAX_CONTROL_ADDR
    THEN [b EXCEPT !.vic = vic_write_register(b.vic, addr, value)]
    ELSE IF addr >= SID_MIN_CONTROL_ADDR /\ addr <= SID_MAX_CONTROL_ADDR
    THEN [b EXCEPT !.sid = sid_write_register(b.sid, addr, value)]
    ELSE IF addr >= COLOR_RAM_START /\ addr <= COLOR_RAM_END
    THEN [b EXCEPT !.color_ram = ImgSet(b.color_ram, addr - COLOR_RAM_START,
                                        BitAnd(value, \h0F))]
    ELSE IF addr >= CIA1_MIN_CONTROL_ADDR /\ addr <= CIA1_MAX_CONTROL_ADDR
    THEN IF cia_translate_addr(b.cia_1, addr) = PANICKED
         THEN [b EXCEPT !.fatal = TRUE]
         ELSE [b EXCEPT !.cia_1 = cia_write_register(b.cia_1, addr, value)]
    ELSE IF addr >= CIA2_MIN_CONTROL_ADDR /\ addr <= CIA2_MAX_CONTROL_ADDR
    THEN IF cia_translate_addr(b.cia_2, addr) = PANICKED
         THEN [b EXCEPT !.fatal = TRUE]
         ELSE [b EXCEPT !.cia_2 = cia_write_register(b.cia_2, addr, value)]
    ELSE [b EXCEPT !.fatal = TRUE]

\* write_byte as it would be if a write under a visible KERNAL or BASIC ROM were
\* dropped
write_byte_dropped_under_rom(b, addr, value) ==
    IF addr = 0 THEN [b EXCEPT !.cpu = write_ddr(b.cpu, value)]
    ELSE IF addr = 1 THEN [b EXCEPT !.cpu = write_dataport(b.cpu, value)]
    ELSE IF BitAnd(read_dataport(b.cpu), 7) > 4 /\ addr >= IO_START /\ addr <= IO_END
    THEN io_write(b, addr, value)
    ELSE IF read_byte(b, addr) # ImgAt(b.ram, addr) THEN b
    ELSE [b EXCEPT !.ram = ImgSet(b.ram, addr, value)]

\* write_byte with the two port addresses also falling through to the RAM store
write_byte_ports_to_ram(b, addr, value) ==
    IF addr = 0
    THEN [b EXCEPT !.cpu = write_ddr(b.cpu, value), !.ram = ImgSet(b.ram, addr, value)]
    ELSE IF addr = 1
    THEN [b EXCEPT !.cpu = write_dataport(b.cpu, value), !.ram = ImgSet(b.ram, addr, value)]
    ELSE IF BitAnd(read_dataport(b.cpu), 7) > 4 /\ addr >= IO_START /\ addr <= IO_END
    THEN io_write(b, addr, value)
    ELSE [b EXCEPT !.ram = ImgSet(b.ram, addr, value)]

\* Bus::write_byte.  The I/O test of the write path reads the dataport itself.
write_byte(b, addr, value) ==
    IF addr = 0 THEN [b EXCEPT !.cpu = write_ddr(b.cpu, value)]
    ELSE IF addr = 1 THEN [b EXCEPT !.cpu = write_dataport(b.cpu, value)]
    ELSE IF BitAnd(read_dataport(b.cpu), 7) > 4 /\ addr >= IO_START /\ addr <= IO_END
    THEN io_write(b, addr, value)
    ELSE [b EXCEPT !.ram = ImgSet(b.ram, addr, value)]

\* Bus::convert_vic_ii_addr; PANICKED when the read of CIA 2 port A panics
convert_vic_ii_addr(b, addr) ==
    IF read_byte(b, CIA2_MIN_CONTROL_ADDR) = PANICKED THEN PANICKED
    ELSE LET high_bits == BitAnd(Not8(read_byte(b, CIA2_MIN_CONTROL_ADDR)), \h03)
         IN \h4000 * high_bits + BitAnd(addr, \h3FF)

\* ------------------------------------------------------------------------
\* The CPU driven from a flat RAM, as run_program drives it
\* (cpu/test_mod.rs:6-39, cpu/mod.rs:1346-1372)
\* ------------------------------------------------------------------------

\* cycle() calls a run may make
MaxCycles == 9

\* The opcodes the interpreter implements
ImplementedCodes == UNION {OpcodeTable[m] : m \in DOMAIN OpcodeTable}

\* Bytes that follow the first opcode: operand low / high (and, for shorter
\* instructions, the next opcode)
Tails == {<<\h00, \h0F>>, <<\hF0, \h01>>}

\* Register-transfer and flag set / clear instructions
TransferCodes == {\hAA, \hA8, \hBA, \h8A, \h9A, \h98}
FlagCodes == {\h18, \hD8, \h58, \hB8, \h38, \hF8, \h78}

\* A two-cycle immediate instruction that makes the branch condition false from
\* reset (A = 0xAA, all flags clear), then the branch
NotTakenPrograms ==
    {<<\hC9, \h00, \h90>>,      \* CMP #$00 sets C        ; BCC
     <<\hA9, \h01, \hB0>>,      \* LDA #$01 leaves C clear ; BCS
     <<\hA9, \h01, \hF0>>,      \* LDA #$01 clears Z       ; BEQ
     <<\hA9, \h01, \h30>>,      \* LDA #$01 clears N       ; BMI
     <<\hA9, \h00, \hD0>>,      \* LDA #$00 sets Z         ; BNE
     <<\hA9, \h80, \h10>>,      \* LDA #$80 sets N         ; BPL
     <<\h69, \h60, \h50>>,      \* ADC #$60 sets V         ; BVC
     <<\hA9, \h01, \h70>>}      \* LDA #$01 leaves V clear ; BVS

\* The same with the branch condition made true, and a NOP after the branch
TakenPrograms ==
    {<<\hA9, \h01, \h90>>,      \* LDA #$01 leaves C clear ; BCC
     <<\hC9, \h00, \hB0>>,      \* CMP #$00 sets C         ; BCS
     <<\hA9, \h00, \hF0>>,      \* LDA #$00 sets Z         ; BEQ
     <<\hA9, \h80, \h30>>,      \* LDA #$80 sets N         ; BMI
     <<\hA9, \h01, \hD0>>,      \* LDA #$01 clears Z       ; BNE
     <<\hA9, \h01, \h10>>,      \* LDA #$01 clears N       ; BPL
     <<\hA9, \h01, \h50>>,      \* LDA #$01 leaves V clear ; BVC
     <<\h69, \h60, \h70>>}      \* ADC #$60 sets V         ; BVS

\* Opcodes that set PC themselves or stop the CPU: jumps, calls, returns, BRK,
\* the eight branches and the twelve KIL codes
FlowCodes ==
    {\h4C, \h6C, \h20, \h60, \h40, \h00,
     \h90, \hB0, \hF0, \h30, \hD0, \h10, \h50, \h70,
     \h02, \h12, \h22, \h32, \h42, \h52, \h62, \h72, \h92, \hB2, \hD2, \hF2}

\* The number of operand bytes of an opcode, by its place in the opcode matrix:
\* 0 implied / accumulator, 2 absolute and absolute indexed, 1 otherwise
OperandBytes(code) ==
    CASE code % 32 \in {8, 10, 24, 26} -> 0
      [] code % 32 \in {12, 13, 14, 15, 25, 27, 28, 29, 30, 31} -> 2
      [] OTHER -> 1

\* One instruction with its operand bytes, then KIL up to six bytes: the opcode
\* decoded after the instruction stops the CPU where it was fetched
StraightLinePrograms ==
    {<<op>> \o SubSeq(t, 1, OperandBytes(op)) \o [i \in 1..(5 - OperandBytes(op)) |-> \h02] :
        op \in ImplementedCodes \ FlowCodes, t \in Tails}

\* LDY #y ; LDA ($10),Y.  The pointer at 0x10 / 0x11 is the RAM fill byte twice.
IndirectYPrograms == {<<\hA0, y, \hB1, \h10>> : y \in {\h00, \h60, \hB0, \hC0}}

Programs ==
       {<<op>> \o t : op \in ImplementedCodes, t \in Tails}
  \cup StraightLinePrograms
  \cup IndirectYPrograms
  \cup {<<i, j>> : i \in TransferCodes \cup FlagCodes, j \in TransferCodes \cup FlagCodes}
  \cup {p \o <<o>> : p \in NotTakenPrograms, o \in {\h0F, \hF0}}
  \cup {p \o <<o, \hEA>> : p \in TakenPrograms, o \in {\h0F, \hF0}}

Fills == {0, 80}

NoImage == ImgNew(0)

\* no bus transaction yet
NoOp == [op |-> "none", addr |-> 0, value |-> 0]

\* `if program[0] == 0 { ram = [80u8; 65536]; }` (cpu/test_mod.rs:7-10): RAM is
\* filled with 0, or with 80 when the program starts with a BRK
HarnessFill(p) == IF p[1] = 0 THEN 80 ELSE 0

HarnessInit ==
    /\ program \in Programs
    /\ overflow_checks \in BOOLEAN
    /\ ram = ImgLoad(ImgNew(HarnessFill(program)), RESET_VECTOR_ADDR, program, 1)
    /\ cpu = reset(Cpu_new)
    /\ kernal_rom = NoImage /\ basic_rom = NoImage /\ char_rom = NoImage
    /\ color_ram = NoImage
    /\ vic = Vic_new /\ sid = Sid_new
    /\ cia_1 = Cia_new(CIA1_MIN_CONTROL_ADDR) /\ cia_2 = Cia_new(CIA2_MIN_CONTROL_ADDR)
    /\ fatal = FALSE
    /\ last_op = NoOp
    /\ ops = 0 /\ screen = {} /\ frames = <<>> /\ run_cycles = 0
    /\ host = NoHost /\ emu_at = "top" /\ mode = "Run" /\ input_events = <<>>

BusIdle ==
    UNCHANGED <<host, emu_at, mode, input_events, program, overflow_checks, kernal_rom, basic_rom, char_rom, color_ram,
                vic, sid, cia_1, cia_2, fatal, last_op, ops, screen, frames, run_cycles>>

\* The driver's two exit tests (cpu/test_mod.rs:22 and :35): the loop is left at
\* the top of a pass when the CPU is about to fetch outside the program, and
\* after a pass once more than 20 cycles have been counted
HarnessLimit == 20

HarnessRunning ==
    /\ ~((cpu.pc < RESET_VECTOR_ADDR \/ cpu.pc >= RESET_VECTOR_ADDR + Len(program))
          /\ cpu.state = "Fetch")
    /\ ~(cpu.cycles > HarnessLimit)

\* One pass of the driver loop with a read pending: latch the byte, then cycle
HarnessRead ==
    /\ ~cpu.panicked /\ cpu.cycles < MaxCycles
    /\ HarnessRunning
    /\ cpu.rw
    /\ cpu' = cycle(data_in(cpu, ImgAt(ram, cpu.addr_bus)))
    /\ ram' = ram
    /\ BusIdle

\* One pass of the driver loop with a write pending: commit the byte, then cycle
HarnessWrite ==
    /\ ~cpu.panicked /\ cpu.cycles < MaxCycles
    /\ HarnessRunning
    /\ ~cpu.rw
    /\ ram' = ImgSet(ram, cpu.addr_bus, data_out(cpu))
    /\ cpu' = cycle(cpu)
    /\ BusIdle

Next == HarnessRead \/ HarnessWrite

Spec == HarnessInit /\ [][Next]_vars

\* ------------------------------------------------------------------------
\* The decoder on its own: read_byte / write_byte applied to the machine as
\* Bus::run leaves it after cpu.reset()
\* ------------------------------------------------------------------------

\* decoder operations a run may apply
MaxOps == 2

\* ROM images as load_roms reads them from the three files: every KERNAL byte is
\* 0x4B, every BASIC byte 0x42, every character byte 0x43
KernalImage == ImgNew(\h4B)
BasicImage == ImgNew(\h42)
CharImage == ImgNew(\h43)

\* The Bus struct of the current state
bus_now ==
    [cpu |-> cpu, ram |-> ram, color_ram |-> color_ram, kernal_rom |-> kernal_rom,
     basic_rom |-> basic_rom, char_rom |-> char_rom, vic |-> vic, sid |-> sid,
     cia_1 |-> cia_1, cia_2 |-> cia_2, fatal |-> fatal]

SetBus(b) ==
    /\ cpu' = b.cpu /\ ram' = b.ram /\ color_ram' = b.color_ram
    /\ kernal_rom' = b.kernal_rom /\ basic_rom' = b.basic_rom /\ char_rom' = b.char_rom
    /\ vic' = b.vic /\ sid' = b.sid /\ cia_1' = b.cia_1 /\ cia_2' = b.cia_2
    /\ fatal' = b.fatal

\* Plain RAM, BASIC ROM, VIC control register 1 and border colour, SID volume,
\* the first and last cell of color RAM, the CIAs, a CIA mirror, the unassigned
\* I/O area, KERNAL ROM
BusAddrs ==
    {\h8000, \hA000, \hD011, \hD020, \hD418, \hD800, \hDBFF, \hDC00, \hDC10,
     \hDD00, \hDE00, \hE000, \hFFFF}
DataValues == {\h00, \h5A, \hFF}
DdrValues == {\h00, \hFF}
PortValues == 0..7

WriteValues(a) ==
    IF a = 0 THEN DdrValues ELSE IF a = 1 THEN PortValues ELSE DataValues

BusInit ==
    /\ program = <<>>
    /\ overflow_checks \in BOOLEAN
    /\ \E f \in Fills : ram = ImgNew(f)
    /\ cpu = reset(Cpu_new)
    /\ kernal_rom = KernalImage /\ basic_rom = BasicImage /\ char_rom = CharImage
    /\ color_ram = NoImage
    /\ vic = Vic_new /\ sid = Sid_new
    /\ cia_1 = Cia_new(CIA1_MIN_CONTROL_ADDR) /\ cia_2 = Cia_new(CIA2_MIN_CONTROL_ADDR)
    /\ fatal = FALSE
    /\ last_op = NoOp
    /\ ops = 0 /\ screen = {} /\ frames = <<>> /\ run_cycles = 0
    /\ host = NoHost /\ emu_at = "top" /\ mode = "Run" /\ input_events = <<>>

WriteByte ==
    /\ ~fatal /\ ops < MaxOps
    /\ \E a \in BusAddrs \cup {0, 1} : \E v \in WriteValues(a) :
          /\ SetBus(write_byte(bus_now, a, v))
          /\ last_op' = [op |-> "write", addr |-> a, value |-> v]
    /\ ops' = ops + 1
    /\ UNCHANGED <<host, emu_at, mode, input_events, program, overflow_checks, screen, frames, run_cycles>>

ReadByte ==
    /\ ~fatal /\ ops < MaxOps
    /\ \E a \in BusAddrs \cup {0, 1} :
          /\ SetBus([bus_now EXCEPT !.fatal = (read_byte(bus_now, a) = PANICKED)])
          /\ last_op' = [op |-> "read", addr |-> a, value |-> read_byte(bus_now, a)]
    /\ ops' = ops + 1
    /\ UNCHANGED <<host, emu_at, mode, input_events, program, overflow_checks, screen, frames, run_cycles>>

BusNext == WriteByte \/ ReadByte

BusSpec == BusInit /\ [][BusNext]_vars

\* ------------------------------------------------------------------------
\* Bus::run: the clock loop (bus.rs:225-361)
\* ------------------------------------------------------------------------

\* passes of the clock loop a run may make
MaxTicks == 9

\* `screen.set_pixel_at(self.xpos as usize, self.raster as usize, COLOR[6])` of
\* rising_edge, v being the Vic after the counters moved: the pixel index painted
\* The Screen buffer is kept as the set of maximal runs <<lo, hi>> of painted
\* pixel indices (main.rs:59-62: index = y * width + x)
Painted(scr, p) == \E r \in scr : r[1] <= p /\ p <= r[2]

set_pixel_at(scr, p) ==
    IF Painted(scr, p) THEN scr
    ELSE LET below == {r \in scr : r[2] = p - 1}
             above == {r \in scr : r[1] = p + 1}
             lo == IF below = {} THEN p ELSE (CHOOSE r \in below : TRUE)[1]
             hi == IF above = {} THEN p ELSE (CHOOSE r \in above : TRUE)[2]
         IN (scr \ (below \cup above)) \cup {<<lo, hi>>}

rising_edge_pixel(scr, v) == set_pixel_at(scr, v.regs[18] * SCREEN_X + v.xpos)

vic_irq(v) == v.irq
vic_rdy(v) == v.rdy
vic_aec(v) == v.aec

\* cpu_turn as it would be if the pending bus transaction were not serviced
cpu_turn_unserviced(b) == [bus |-> [b EXCEPT !.cpu = cycle(b.cpu)], op |-> NoOp]

\* The CPU's half of a tick (bus.rs:261-281): the interrupt line, the pending bus
\* transaction, then one cycle().  `op` is the transaction that was serviced.
cpu_turn(b) ==
    LET c0 == IF ~vic_irq(b.vic) /\ vic_rdy(b.vic) THEN trigger_interrupt(b.cpu)
              ELSE b.cpu
        b0 == [b EXCEPT !.cpu = c0]
        addr == c0.addr_bus
    IN IF ~c0.addr_enable
       THEN [bus |-> [b0 EXCEPT !.cpu = cycle(c0)], op |-> NoOp]
       ELSE IF c0.rw
       THEN IF read_byte(b0, addr) = PANICKED
            THEN [bus |-> [b0 EXCEPT !.fatal = TRUE],
                  op |-> [op |-> "read", addr |-> addr, value |-> PANICKED]]
            ELSE [bus |-> [b0 EXCEPT !.cpu = cycle(data_in(c0, read_byte(b0, addr)))],
                  op |-> [op |-> "read", addr |-> addr, value |-> read_byte(b0, addr)]]
       ELSE LET b1 == write_byte(b0, addr, data_out(c0))
            IN [bus |-> IF b1.fatal THEN b1 ELSE [b1 EXCEPT !.cpu = cycle(b1.cpu)],
                op |-> [op |-> "write", addr |-> addr, value |-> data_out(c0)]]

\* The VIC's half of a tick (bus.rs:282-288)
vic_turn(b) == [bus |-> [b EXCEPT !.vic = vic_falling_edge(b.vic)], op |-> NoOp]

\* What the programs of a run do first: a store to the VIC, a store that banks out
\* the KERNAL, a read-modify-write of RAM, a read of a CIA mirror, a read of the
\* raster register, a subroutine call, a store under the KERNAL ROM, an implied
\* pair, a jam
RunPrograms ==
    {<<\hA9, \h05, \h8D, \h20, \hD0>>,
     <<\hA9, \h00, \h85, \h01, \hEA>>,
     <<\hEE, \h00, \h0F>>,
     <<\hAD, \h10, \hDC>>,
     <<\hAD, \h12, \hD0>>,
     <<\h20, \h00, \h0F>>,
     <<\h8D, \h00, \hE0>>,
     <<\hEA, \hEA>>,
     <<\h02>>}

\* Bus::new, initialize, load_roms, then the `self.cpu.reset()` that opens run.
\* The reset vector lies under the KERNAL ROM, so the program is in that image.
RunInit ==
    /\ program \in RunPrograms
    /\ overflow_checks \in BOOLEAN
    /\ \E f \in Fills : ram = ImgNew(f)
    /\ cpu = reset(Cpu_new)
    /\ kernal_rom = ImgLoad(ImgNew(\hEA), RESET_VECTOR_ADDR - KERNAL_ROM_START, program, 1)
    /\ basic_rom = BasicImage /\ char_rom = CharImage
    /\ color_ram = NoImage
    /\ vic = Vic_new /\ sid = Sid_new
    /\ cia_1 = Cia_new(CIA1_MIN_CONTROL_ADDR) /\ cia_2 = Cia_new(CIA2_MIN_CONTROL_ADDR)
    /\ fatal = FALSE
    /\ last_op = NoOp
    /\ ops = 0 /\ screen = {} /\ frames = <<>> /\ run_cycles = 0
    /\ host = NoHost /\ emu_at = "top" /\ mode = "Run" /\ input_events = <<>>

\* `event_rx.try_recv()` (bus.rs:237-244): one event is taken off the queue, if
\* there is one, and dropped
try_recv(chan) == IF chan = <<>> THEN chan ELSE Tail(chan)

\* What the debugger's `stdin().read_line` (bus.rs:307-311) can return, trimmed:
\* an empty line (or end of input), "r", "run", "h", a line that is no command,
\* or an error
StdinError == "<error>"
StdinLines == {"", "r", "run", "h", "x", StdinError}

\* `match input.trim()` (bus.rs:313-325): "r" and "run" switch to DebugRun
debug_command(m, line) == IF line \in {"r", "run"} THEN "DebugRun" ELSE m

\* The machine's part of the loop body (bus.rs:246-288): the VIC reads its byte
\* and colour and takes its rising edge; then the CPU's turn or the VIC's falling
\* edge.  `err`: the read_line that follows in DebugStep mode fails.  The debug
\* flag passed to rising_edge, falling_edge and cycle only adds printing.
Compute(err) ==
    \E vaddr \in {convert_vic_ii_addr(bus_now, vic_read_addr_bus(vic))} :
    \E byte \in {read_byte(bus_now, vaddr)} :
    \E color \in {ImgAt(color_ram, BitAnd(vaddr, \h03FF))} :
    \E v1 \in {vic_rising_edge(vic_color_in(vic_data_in(vic, byte), color))} :
    \E b1 \in {[bus_now EXCEPT !.vic = v1]} :
    \E r \in {IF vic_aec(v1) THEN cpu_turn(b1) ELSE vic_turn(b1)} :
    \E died \in {r.bus.fatal \/ r.bus.cpu.panicked} :
       /\ SetBus([r.bus EXCEPT !.fatal = @ \/ (err /\ ~died)])
       /\ last_op' = r.op
       /\ screen' = rising_edge_pixel(screen, v1)

\* The end of the loop body (bus.rs:333-341): a finished frame is sent and the
\* loop continues, else `cycles` is counted
send_frame(v, scr, fr) == IF vic_frame_ready(v) THEN Append(fr, scr) ELSE fr
count_cycle(v, n) ==
    IF vic_frame_ready(v) THEN n ELSE n + 1    \* u64: no wrap within the runs checked

\* The end of the loop body on the machine as the pass leaves it
HandOver ==
    \E died \in {fatal' \/ cpu'.panicked} :
       /\ frames' = IF died THEN frames ELSE send_frame(vic', screen', frames)
       /\ run_cycles' = IF died THEN run_cycles ELSE count_cycle(vic', run_cycles)

\* The loop body after try_recv
PassBody ==
    \E line \in (IF mode = "DebugStep" THEN StdinLines ELSE {""}) :
       /\ Compute(line = StdinError)
       /\ mode' = IF fatal' \/ cpu'.panicked THEN mode ELSE debug_command(mode, line)
       /\ HandOver

\* One pass of the loop.  A panic ends the thread: no pass follows it.
Pass ==
    /\ ~fatal /\ ~cpu.panicked
    /\ input_events' = try_recv(input_events)
    /\ PassBody
    /\ UNCHANGED <<host, emu_at, program, overflow_checks, ops>>

\* A pass within the first MaxTicks of a run
Tick == vic.cycles < MaxTicks /\ Pass

RunNext == Tick

RunSpec == RunInit /\ [][RunNext]_vars

\* A run long enough for the VIC to draw a whole frame and start the next: the
\* program stores A to a VIC register (control register 1, the raster register,
\* a register that does not exist) and loops
MaxFrameTicks == 6400

FramePrograms ==
    {<<\hA9, v, \h8D, reg, \hD0, \h4C, RESET_VECTOR_ADDR % 256, RESET_VECTOR_ADDR \div 256>> :
        v \in {\h00, \h65, \hFF}, reg \in {\h11, \h12, \h2F}}

FrameInit ==
    /\ program \in FramePrograms
    /\ overflow_checks \in BOOLEAN
    /\ ram = ImgNew(0)
    /\ cpu = reset(Cpu_new)
    /\ kernal_rom = ImgLoad(ImgNew(\hEA), RESET_VECTOR_ADDR - KERNAL_ROM_START, program, 1)
    /\ basic_rom = BasicImage /\ char_rom = CharImage
    /\ color_ram = NoImage
    /\ vic = Vic_new /\ sid = Sid_new
    /\ cia_1 = Cia_new(CIA1_MIN_CONTROL_ADDR) /\ cia_2 = Cia_new(CIA2_MIN_CONTROL_ADDR)
    /\ fatal = FALSE
    /\ last_op = NoOp
    /\ ops = 0 /\ screen = {} /\ frames = <<>> /\ run_cycles = 0
    /\ host = NoHost /\ emu_at = "top" /\ mode = "Run" /\ input_events = <<>>

FrameTick == vic.cycles < MaxFrameTicks /\ Pass

FrameSpec == FrameInit /\ [][FrameTick]_vars

\* ------------------------------------------------------------------------
\* Stack, subroutine and interrupt sequences on the machine: a prologue at the
\* reset vector (in the KERNAL ROM) sets SP and A and jumps to the code under
\* test, which the RAM image file and the KERNAL ROM file provide
\* ------------------------------------------------------------------------

\* cycle() calls a run of a stack scenario may make
MaxStackCycles == 34

\* where the scenarios keep the subroutine and the BRK / IRQ handler
JsrTargets == {\h0F00, \hC000}
BrkHandler == \h3000

\* LDX #sp ; TXS ; LDA #b ; JMP s
Prologue(sp, b, s) == <<\hA2, sp, \h9A, \hA9, b, \h4C, s % 256, s \div 256>>

\* the stack pointer, accumulator and start address the prologue sets up
StartSp == program[2]
StartA == program[5]
StartAddr == program[7] + 256 * program[8]

\* JSR t at s, RTS at t
JsrImage(img, s, t) ==
    ImgLoad(ImgLoad(img, s, <<\h20, t % 256, t \div 256>>, 1), t, <<\h60>>, 1)

\* BRK at s, the vector at 0xFFFE/0xFFFF pointing to the handler, which is JSR t
BrkImage(img, s, t) ==
    ImgLoad(ImgLoad(JsrImage(img, BrkHandler, t), s, <<\h00>>, 1),
            IRQ_VEC_LO_ADDR, <<BrkHandler % 256, BrkHandler \div 256>>, 1)

\* PHA ; PLA at s, and PLA again at s + 2, where the CPU fetches after the PHA
PhaImage(img, s) == ImgLoad(img, s, <<\h48, \h68, \h68>>, 1)

\* BCS +16 at s
BcsImage(img, s) == ImgLoad(img, s, <<\hB0, \h10>>, 1)

StackSps == {\hFD, \h00, \h01}
StackBytes == {\h00, \h5A, \h80}

\* the RAM images of the scenarios that start at s (at the top of memory only the
\* JSR, whose three bytes end at 0xFFFF where the vector would be, and the BCS)
StackImages(img, s) ==
       {JsrImage(img, s, t) : t \in JsrTargets}
  \cup (IF s < \hFF00
        THEN {BrkImage(img, s, t) : t \in JsrTargets}
             \cup {PhaImage(img, s)}
        ELSE {BcsImage(img, s)})

\* The KERNAL ROM file cut from a 64K image: the bytes of 0xE000..0xFFFF
KernalOf(img) ==
    [fill |-> img.fill,
     ovl |-> [k \in {a - KERNAL_ROM_START : a \in {x \in DOMAIN img.ovl : x >= KERNAL_ROM_START}}
                 |-> img.ovl[k + KERNAL_ROM_START]]]

\* Bus::new, initialize and load_roms, then the `self.cpu.reset()` that opens run:
\* the RAM image file and the KERNAL ROM file are cut from the same 64K image,
\* so the CPU reads the scenario wherever it lies
StackInit ==
    /\ \E sp \in StackSps, b \in StackBytes, s \in {\h2000, \hFFFD} :
          /\ program = Prologue(sp, b, s)
          /\ \E f \in Fills :
                ram \in StackImages(ImgLoad(ImgNew(f), RESET_VECTOR_ADDR, program, 1), s)
    /\ overflow_checks \in BOOLEAN
    /\ cpu = reset(Cpu_new)
    /\ kernal_rom = KernalOf(ram)
    /\ basic_rom = BasicImage /\ char_rom = CharImage
    /\ color_ram = NoImage
    /\ vic = Vic_new /\ sid = Sid_new
    /\ cia_1 = Cia_new(CIA1_MIN_CONTROL_ADDR) /\ cia_2 = Cia_new(CIA2_MIN_CONTROL_ADDR)
    /\ fatal = FALSE
    /\ last_op = NoOp
    /\ ops = 0 /\ screen = {} /\ frames = <<>> /\ run_cycles = 0
    /\ host = NoHost /\ emu_at = "top" /\ mode = "Run" /\ input_events = <<>>

\* A pass of the clock loop within the first MaxStackCycles cycles of the CPU
StackTick == cpu.cycles < MaxStackCycles /\ Pass

StackNext == StackTick

StackSpec == StackInit /\ [][StackNext]_vars

\* ------------------------------------------------------------------------
\* reset() applied to a running CPU
\* ------------------------------------------------------------------------

\* Cpu::reset called once, at any point of a run of the flat-RAM driver; last_op
\* keeps the cycle count at the time of the call
HarnessReset ==
    /\ ~cpu.panicked /\ cpu.cycles < MaxCycles
    /\ last_op.op # "reset"
    /\ cpu' = reset(cpu)
    /\ last_op' = [op |-> "reset", addr |-> 0, value |-> cpu.cycles]
    /\ UNCHANGED <<host, emu_at, mode, input_events, ram, program, overflow_checks, kernal_rom, basic_rom, char_rom,
                   color_ram, vic, sid, cia_1, cia_2, fatal, ops, screen, frames,
                   run_cycles>>

ResetNext == HarnessRead \/ HarnessWrite \/ HarnessReset

ResetSpec == HarnessInit /\ [][ResetNext]_vars

\* ------------------------------------------------------------------------
\* trigger_interrupt() applied to a running CPU
\* ------------------------------------------------------------------------

\* Cpu::trigger_interrupt called by the driver before a pass of its loop, as
\* Bus::run calls it before it services the bus (bus.rs:262-264)
HarnessInterrupt ==
    /\ ~cpu.panicked /\ cpu.cycles < MaxCycles
    /\ HarnessRunning
    /\ cpu' = trigger_interrupt(cpu)
    /\ UNCHANGED <<host, emu_at, mode, input_events, ram, program, overflow_checks, kernal_rom, basic_rom, char_rom,
                   color_ram, vic, sid, cia_1, cia_2, fatal, last_op, ops, screen, frames,
                   run_cycles>>

IrqNext == HarnessRead \/ HarnessWrite \/ HarnessInterrupt

IrqSpec == HarnessInit /\ [][IrqNext]_vars

\* ------------------------------------------------------------------------
\* The status register loaded from a byte and serialised again: PLP, then PHP,
\* on the machine.  The KERNAL ROM file has the opcodes at the reset vector,
\* the RAM image file has the byte to pull in the stack page.
\* ------------------------------------------------------------------------

\* cycle() calls a run of PLP ; PHP may make
MaxSrCycles == 8

\* PLP ; PHP.  The byte between them is read and passed over in the second
\* cycle of PLP, as in every implied-mode instruction.
SrProgram == <<\h28, \hEA, \h08>>

\* The stack cell at SP after reset, which PLP reads (the sum of
\* `self.sp.wrapping_add(1)` is dropped); the RAM image file has the same byte in
\* the cell above it, which SP + 1 addresses
PullAddr == STACK_START_ADDR + \hFD

\* the byte PLP pulls
PulledByte == ImgAt(ram, PullAddr)

SrInit ==
    /\ program = SrProgram
    /\ overflow_checks \in BOOLEAN
    /\ \E x \in 0..255 : ram = ImgLoad(ImgNew(0), PullAddr, <<x, x>>, 1)
    /\ cpu = reset(Cpu_new)
    /\ kernal_rom = ImgLoad(ImgNew(\hEA), RESET_VECTOR_ADDR - KERNAL_ROM_START, program, 1)
    /\ basic_rom = BasicImage /\ char_rom = CharImage
    /\ color_ram = NoImage
    /\ vic = Vic_new /\ sid = Sid_new
    /\ cia_1 = Cia_new(CIA1_MIN_CONTROL_ADDR) /\ cia_2 = Cia_new(CIA2_MIN_CONTROL_ADDR)
    /\ fatal = FALSE
    /\ last_op = NoOp
    /\ ops = 0 /\ screen = {} /\ frames = <<>> /\ run_cycles = 0
    /\ host = NoHost /\ emu_at = "top" /\ mode = "Run" /\ input_events = <<>>

\* A pass of the clock loop within the first MaxSrCycles cycles of the CPU
SrTick == cpu.cycles < MaxSrCycles /\ Pass

SrNext == SrTick

SrSpec == SrInit /\ [][SrNext]_vars

\* ------------------------------------------------------------------------
\* Cycle counts from reset
\* ------------------------------------------------------------------------

\* The first instruction of the run is back in Fetch after exactly n cycle() calls
BackInFetchAfter(n) ==
    /\ cpu.cycles < n => ~cpu.panicked
    /\ cpu.cycles \in 1..(n - 1) => cpu.state # "Fetch"
    /\ cpu.cycles = n => cpu.state = "Fetch" /\ cpu.addr_bus = cpu.pc

\* ADC, AND, CMP, EOR, LDA, ORA, SBC by addressing mode
AluImm  == {\h69, \h29, \hC9, \h49, \hA9, \h09, \hE9}
AluZp   == {\h65, \h25, \hC5, \h45, \hA5, \h05, \hE5}
AluZpX  == {\h75, \h35, \hD5, \h55, \hB5, \h15, \hF5}
AluAbs  == {\h6D, \h2D, \hCD, \h4D, \hAD, \h0D, \hED}
AluAbsX == {\h7D, \h3D, \hDD, \h5D, \hBD, \h1D, \hFD}
AluAbsY == {\h79, \h39, \hD9, \h59, \hB9, \h19, \hF9}
AluIndX == {\h61, \h21, \hC1, \h41, \hA1, \h01, \hE1}
\* ASL, LSR, ROL, ROR by addressing mode
RmwZp   == {\h06, \h46, \h26, \h66}
RmwZpX  == {\h16, \h56, \h36, \h76}
RmwAbs  == {\h0E, \h4E, \h2E, \h6E}
RmwAbsX == {\h1E, \h5E, \h3E, \h7E}

\* The reference cycle count of the first opcode of the program (0: not in the table)
ReferenceCycles(code) ==
    CASE code \in AluImm -> 2
      [] code \in AluZp -> 3
      [] code \in AluZpX \cup AluAbs \cup AluAbsX \cup AluAbsY -> 4
      [] code \in AluIndX -> 6
      [] code \in RmwZp -> 5
      [] code \in RmwZpX \cup RmwAbs -> 6
      [] OTHER -> 0

\* C1: from reset, each of ADC, AND, CMP, EOR, LDA, ORA, SBC is back in Fetch with
\* addr_bus = PC after exactly 2 (immediate), 3 (zeropage), 4 (zeropage,X), 4 (absolute),
\* 4 (absolute,X), 4 (absolute,Y), 6 ((indirect,X)) cycle() calls, and each of ASL, LSR,
\* ROL, ROR after exactly 5 (zeropage), 6 (zeropage,X), 6 (absolute) cycle() calls.
C1_ReferenceCycleCounts ==
    (Len(program) = 3 /\ ReferenceCycles(program[1]) > 0)
        => BackInFetchAfter(ReferenceCycles(program[1]))

C1_Witness ==
    /\ program[1] = \h61 /\ cpu.cycles = 6 /\ cpu.state = "Fetch" /\ cpu.curr_op = "ADC"

\* C2: whenever the micro-state is Fetch the address bus equals PC and rw is read,
\* after every instruction, branches taken or not.
C2_FetchDrivesPC ==
    (cpu.state = "Fetch" /\ ~cpu.panicked) => (cpu.addr_bus = cpu.pc /\ cpu.rw)

\* C7: every register-transfer and flag set/clear instruction takes exactly 2 cycle()
\* calls and then leaves the CPU in Fetch, also directly after another implied
\* instruction; SEI; CLI has I = 1 after 2 cycles and first has I = 0 after 4 cycles.
C7_ImpliedTakeTwoCycles ==
    /\ (program[1] \in TransferCodes \cup FlagCodes) => BackInFetchAfter(2)
    /\ (Len(program) = 2 /\ cpu.cycles = 4) => cpu.state = "Fetch"
    /\ program = <<\h78, \h58>> =>
          /\ cpu.cycles \in {2, 3} => cpu.sr.int_disable
          /\ cpu.cycles = 4 => ~cpu.sr.int_disable

\* C8: ASL, LSR, ROL, ROR absolute,X take exactly 7 cycle() calls from reset.
C8_RmwAbsXSevenCycles ==
    (Len(program) = 3 /\ program[1] \in RmwAbsX) => BackInFetchAfter(7)

BranchCodes == {\h90, \hB0, \hF0, \h30, \hD0, \h10, \h50, \h70}

\* The condition under which the branch opcode is taken
BranchTaken(op, sr) ==
    CASE op = "BCC" -> ~sr.carry
      [] op = "BCS" -> sr.carry
      [] op = "BEQ" -> sr.zero_result
      [] op = "BMI" -> sr.negative
      [] op = "BNE" -> ~sr.zero_result
      [] op = "BPL" -> ~sr.negative
      [] op = "BVC" -> ~sr.overflow
      [] op = "BVS" -> sr.overflow
      [] OTHER -> TRUE

\* C9: each of the eight branches takes exactly 2 cycle() calls when its condition is
\* false, and is then in Fetch.  The branch follows a two-cycle instruction that makes
\* its condition false: it is decoded by cycle 3, with its condition false, and is
\* back in Fetch by cycle 4.
C9_BranchNotTakenTwoCycles ==
    (Len(program) = 4 /\ program[3] \in BranchCodes) =>
        /\ cpu.cycles < 4 => ~cpu.panicked
        /\ cpu.cycles = 2 => cpu.state = "Fetch"
        /\ cpu.cycles = 3 => /\ cpu.state = "Immediate"
                             /\ cpu.curr_op = Opcode_from_u8(program[3])
                             /\ ~BranchTaken(cpu.curr_op, cpu.sr)
        /\ cpu.cycles = 4 => cpu.state = "Fetch"

C9_Witness ==
    /\ Len(program) = 4 /\ program[3] = \h90
    /\ cpu.cycles = 4 /\ cpu.state = "Fetch" /\ cpu.curr_op = "BCC" /\ cpu.sr.carry

\* C10: from reset JMP absolute takes exactly 3 cycle() calls, JMP (indirect) 5,
\* JSR 6 and RTS 6 before the CPU is in Fetch at the new PC.
C10_JumpCycleCounts ==
    /\ (Len(program) = 3 /\ program[1] = \h4C) => BackInFetchAfter(3)
    /\ (Len(program) = 3 /\ program[1] = \h6C) => BackInFetchAfter(5)
    /\ (Len(program) = 3 /\ program[1] = \h20) => BackInFetchAfter(6)
    /\ (Len(program) = 3 /\ program[1] = \h60) => BackInFetchAfter(6)

\* ------------------------------------------------------------------------
\* The decoder: writes, ROM shadowing and banking
\* ------------------------------------------------------------------------

\* The machine after `write 0xFF to address 0, then 0 to address 1`: every ROM and
\* the I/O area banked out
banked_out(b) == write_byte(write_byte(b, 0, \hFF), 1, 0)

\* The last operation was write_byte(a, v) for some a in lo..hi
LastWriteIn(lo, hi) == last_op.op = "write" /\ last_op.addr >= lo /\ last_op.addr <= hi

\* The register a write of v to a selects holds v (under the register's mask)
PeripheralHolds(a, v) ==
    CASE a \in VIC_MIN_CONTROL_ADDR..VIC_MAX_CONTROL_ADDR ->
           LET reg == (a - VIC_MIN_CONTROL_ADDR) % 64
           IN CASE reg = 18 -> vic.raster_int = v
                [] reg \in VicRegs \ {18} -> BitAnd(vic.regs[reg], v) = v
                [] OTHER -> TRUE
      [] a \in COLOR_RAM_START..COLOR_RAM_END ->
           ImgAt(color_ram, a - COLOR_RAM_START) = v % 16
      [] OTHER -> TRUE

\* C3: write_byte(A, v) to a peripheral window or color RAM while I/O is visible
\* writes the peripheral register and also sets RAM[A] = v, so that a read_byte(A)
\* with I/O and character ROM banked out returns v.
C3_IoWriteReachesRam ==
    (/\ LastWriteIn(VIC_MIN_CONTROL_ADDR, CIA2_MAX_CONTROL_ADDR)
     /\ (cpu.dataport % 8) \in {5, 6, 7}) =>
        /\ ~fatal
        /\ PeripheralHolds(last_op.addr, last_op.value)
        /\ ImgAt(ram, last_op.addr) = last_op.value
        /\ read_byte(banked_out(bus_now), last_op.addr) = last_op.value

InKernalRange(a) == a >= \hE000 /\ a <= \hFFFF
InBasicRange(a) == a >= \hA000 /\ a <= \hBFFF
InCharRange(a) == a >= \hD000 /\ a <= \hDFFF

\* The ROM byte at a, and whether the banking table makes that ROM visible
RomByteAt(a) ==
    CASE InKernalRange(a) -> ImgAt(KernalImage, a - \hE000)
      [] InBasicRange(a) -> ImgAt(BasicImage, a - \hA000)
      [] OTHER -> ImgAt(CharImage, a - \hD000)

RomVisibleAt(a) ==
    CASE InKernalRange(a) -> (cpu.dataport % 8) \in {2, 3, 6, 7}
      [] InBasicRange(a) -> (cpu.dataport % 8) \in {3, 7}
      [] OTHER -> (cpu.dataport % 8) \in {1, 2, 3}

\* C4: write_byte(A, v) to an address in the KERNAL, BASIC or character ROM range,
\* in a banking mode that does not route A to I/O, leaves the three ROM images as
\* they were and sets RAM[A] = v; while the ROM is visible read_byte(A) returns the
\* ROM byte, and once the ROM is banked out read_byte(A) returns v.
C4_WriteUnderRom ==
    (/\ last_op.op = "write"
     /\ InKernalRange(last_op.addr) \/ InBasicRange(last_op.addr) \/ InCharRange(last_op.addr)
     /\ ~(InCharRange(last_op.addr) /\ (cpu.dataport % 8) \in {5, 6, 7})) =>
        /\ kernal_rom = KernalImage /\ basic_rom = BasicImage /\ char_rom = CharImage
        /\ ImgAt(ram, last_op.addr) = last_op.value
        /\ RomVisibleAt(last_op.addr) =>
               read_byte(bus_now, last_op.addr) = RomByteAt(last_op.addr)
        /\ read_byte(banked_out(bus_now), last_op.addr) = last_op.value

C4_Witness ==
    /\ LastWriteIn(\hE000, \hE000) /\ last_op.value = \h5A /\ (cpu.dataport % 8) = 7
    /\ ImgAt(ram, \hE000) = \h5A
    /\ read_byte(bus_now, \hE000) = \h4B
    /\ read_byte(banked_out(bus_now), \hE000) = \h5A

\* ------------------------------------------------------------------------
\* The clock loop
\* ------------------------------------------------------------------------

\* What one pass of the loop does after the VIC's rising edge, on a pass that
\* does not end the process in a panic
CpuServicedAndCycledOnce ==
    /\ vic'.aec
    /\ cpu'.cycles = cpu.cycles + 1
    /\ IF ~cpu.addr_enable THEN last_op' = NoOp
       ELSE IF cpu.rw
       THEN /\ last_op' = [op |-> "read", addr |-> cpu.addr_bus,
                           value |-> read_byte([bus_now EXCEPT !.vic = vic'], cpu.addr_bus)]
            /\ cpu' = cycle(data_in(cpu, last_op'.value))
            /\ ram' = ram
       ELSE /\ last_op' = [op |-> "write", addr |-> cpu.addr_bus, value |-> data_out(cpu)]
            /\ (cpu.addr_bus >= 2 /\ cpu.addr_bus < IO_START)
                   => ImgAt(ram', cpu.addr_bus) = data_out(cpu)
            /\ cpu.addr_bus = 1
                   => cpu'.dataport = BitAnd(cpu.data_direction_reg, data_out(cpu))

VicFallingEdgeOnly ==
    /\ ~vic'.aec
    /\ cpu' = cpu /\ ram' = ram /\ last_op' = NoOp

\* C6: in every pass of the clock loop, after the VIC rising edge, exactly one of
\* two things happens: AEC allows the CPU on the bus, its pending transaction is
\* serviced through the decoder (a read latched, or a write committed) and cycle()
\* runs exactly once; or the VIC falling edge runs and the CPU and RAM are as they
\* were.  (vic'.aec decides which: the two cannot both hold.)
C6_TickArbitration ==
    [][fatal' \/ cpu'.panicked \/ CpuServicedAndCycledOnce \/ VicFallingEdgeOnly]_vars

C6_Witness ==
    /\ last_op.op = "write" /\ last_op.addr = \hD020 /\ last_op.value = 5
    /\ vic.regs[32] = \hF5
    /\ vic.aec /\ vic.cycles = cpu.cycles /\ ~fatal /\ ~cpu.panicked

\* ------------------------------------------------------------------------
\* Stack, subroutines and interrupts
\* ------------------------------------------------------------------------

\* the opcode at the address the prologue jumps to tells the scenarios apart
StartsWithJsr == ImgAt(ram, StartAddr) = \h20
StartsWithBrk == ImgAt(ram, StartAddr) = \h00
StartsWithPha == ImgAt(ram, StartAddr) = \h48

\* the instruction op has just completed: the CPU is back in Fetch and has not yet
\* decoded the next opcode
Completed(op) == ~cpu.panicked /\ cpu.curr_op = op /\ cpu.state = "Fetch"

\* the k-th stack cell below the stack pointer the prologue set (k = 0: the cell a
\* first push writes)
StackCell(k) == ImgAt(ram, STACK_START_ADDR + Wrap8(StartSp + 256 - k))

\* where the JSR of the scenario is, and the stack pointer when it is fetched (the
\* BRK before the handler's JSR has pushed three bytes)
JsrSite == IF StartsWithJsr THEN StartAddr ELSE BrkHandler
SpBeforeJsr == IF StartsWithJsr THEN StartSp ELSE Wrap8(StartSp + 256 - 3)

\* C11: for a JSR at any address S to a target whose first instruction is RTS, once
\* the RTS completes the CPU is in Fetch with PC = (S + 3) mod 65536 and SP equal to
\* its value before the JSR.
C11_JsrRtsReturns ==
    ((StartsWithJsr \/ StartsWithBrk) /\ Completed("RTS")) =>
        /\ cpu.pc = Wrap16(JsrSite + 3)
        /\ cpu.sp = SpBeforeJsr

\* C12: a JSR at S writes the 16-bit value S + 2 to the stack, high byte first at
\* 0x0100+SP, low byte second at 0x0100+SP-1, and SP ends 2 lower.
C12_JsrPushesLastByteAddress ==
    (StartsWithJsr /\ Completed("JSR")) =>
        /\ StackCell(0) = Wrap16(StartAddr + 2) \div 256
        /\ StackCell(1) = Wrap16(StartAddr + 2) % 256
        /\ cpu.sp = Wrap8(StartSp + 256 - 2)

\* C13: PHA with A = b writes b to RAM at 0x0100+SP and then decrements SP; a
\* following PLA increments SP, reads that cell and leaves A = b and SP as it was
\* before the PHA.
C13_PhaPlaRoundTrip ==
    StartsWithPha =>
        /\ Completed("PHA") => /\ StackCell(0) = StartA
                               /\ cpu.sp = Wrap8(StartSp + 256 - 1)
        /\ Completed("PLA") => /\ cpu.a = StartA
                               /\ cpu.sp = StartSp

\* C14: BRK at S pushes S + 2 (high byte first), then the status byte with bits 4
\* and 5 set and no other bit forced, sets I, leaves SP 3 lower and fetches the next
\* opcode from the address stored at 0xFFFE/0xFFFF.
C14_BrkSequence ==
    (StartsWithBrk /\ Completed("BRK")) =>
        /\ StackCell(0) = Wrap16(StartAddr + 2) \div 256
        /\ StackCell(1) = Wrap16(StartAddr + 2) % 256
        /\ StackCell(2) = BitOr(sr_to_u8([cpu.sr EXCEPT !.int_disable = FALSE]), \h30)
        /\ cpu.sr.int_disable
        /\ cpu.sp = Wrap8(StartSp + 256 - 3)
        /\ cpu.pc = BrkHandler /\ cpu.addr_bus = BrkHandler

\* a cycle() call made in Fetch with an interrupt requested and the I flag clear
FetchWithRequest ==
    /\ cpu.irq /\ ~cpu.sr.int_disable /\ cpu.state = "Fetch"
    /\ cpu'.cycles = cpu.cycles + 1

\* C15: after trigger_interrupt() with the I flag clear, the CPU at its next Fetch
\* performs the interrupt sequence (push PC, push SR with bit 4 clear, set I, go to
\* the vector at 0xFFFE/0xFFFF) instead of executing the fetched opcode: the
\* cycle leaves the opcode undecoded and asks for the write of PC's high byte to
\* the stack.
C15_InterruptTakenAtFetch ==
    [][FetchWithRequest =>
          /\ cpu'.curr_op = cpu.curr_op
          /\ ~cpu'.rw /\ cpu'.addr_bus = STACK_START_ADDR + cpu.sp]_vars

\* C16: RTI pulls the status register first and then the program counter, leaves SP
\* 3 higher and is in Fetch at the pulled PC after 6 cycle() calls.  From reset
\* (SP = 0xFD) the three cells pulled are 0x01FE, 0x01FF and 0x0100.
C16_RtiSequence ==
    program[1] = \h40 =>
        /\ BackInFetchAfter(6)
        /\ cpu.cycles = 6 =>
              /\ cpu.sr = sr_from_u8(ImgAt(ram, \h01FE))
              /\ cpu.pc = ImgAt(ram, \h01FF) + 256 * ImgAt(ram, \h0100)
              /\ cpu.sp = \h00

\* PHP has put the serialised status register on the data bus
PhpDone == cpu.curr_op = "PHP" /\ cpu.state = "Store" /\ ~cpu.panicked

\* C17: for every byte x, from_u8(x) followed by to_u8() yields x OR 0x20: the
\* byte PHP externalises after PLP has pulled x is x with bit 5 set.
C17_StatusByteRoundTrip ==
    PhpDone => cpu.data_bus = BitOr(PulledByte, \h20)

\* C18: from any prior state reset() leaves PC = 0xFCE2, A = 0xAA, X = Y = 0,
\* SP = 0xFD, DDR = 0x2F, dataport = 0x37, rw = read, addr_enable, addr_bus = PC and
\* the micro-state Fetch, so that KERNAL, BASIC and I/O are visible to the decoder.
C18_ResetState ==
    (last_op.op = "reset" /\ cpu.cycles = last_op.value /\ ~cpu.panicked) =>
        /\ cpu.pc = \hFCE2 /\ cpu.a = \hAA /\ cpu.x = 0 /\ cpu.y = 0 /\ cpu.sp = \hFD
        /\ cpu.data_direction_reg = \h2F /\ cpu.dataport = \h37
        /\ cpu.rw /\ cpu.addr_enable /\ cpu.addr_bus = cpu.pc
        /\ cpu.state = "Fetch"
        /\ krom_enabled(cpu) /\ brom_enabled(cpu) /\ io_enabled(cpu)

\* reset() was applied to a halted CPU (a KIL opcode had been decoded)
C18_Witness ==
    /\ last_op.op = "reset" /\ last_op.value = 1 /\ cpu.cycles = 1
    /\ cpu.curr_op = "KIL" /\ cpu.state = "Fetch" /\ cpu.pc = \hFCE2

ReadRequest == cpu.addr_enable /\ cpu.rw
WriteRequest == cpu.addr_enable /\ ~cpu.rw
Halted == cpu.state = "Halt"

\* C19: after every cycle() call exactly one of these holds: the CPU is not halted
\* and presents a read request; it is not halted and presents a write request; it is
\* halted.  A halted CPU presents neither a read nor a write request.
C19_OneBusRole ==
    (cpu.cycles >= 1 /\ ~cpu.panicked) =>
        /\ Cardinality({i \in 1..3 : CASE i = 1 -> ~Halted /\ ReadRequest
                                       [] i = 2 -> ~Halted /\ WriteRequest
                                       [] OTHER -> Halted}) = 1
        /\ Halted => (~ReadRequest /\ ~WriteRequest)

KilCodes ==
    {\h02, \h12, \h22, \h32, \h42, \h52, \h62, \h72, \h92, \hB2, \hD2, \hF2}

\* C20: fetching any KIL opcode moves the CPU to Halt, and Halt is terminal: the
\* next cycle() call is a fatal error and leaves the CPU in Halt.
C20_KilHalts ==
    [][/\ (program[1] \in KilCodes /\ cpu.cycles = 0) =>
              (cpu'.state = "Halt" /\ ~cpu'.panicked /\ cpu'.cycles = 1)
       /\ cpu.state = "Halt" =>
              (cpu'.state = "Halt" /\ cpu'.panicked /\ cpu'.cycles = cpu.cycles)]_vars

C20_Witness ==
    /\ program[1] = \hF2 /\ cpu.curr_op = "KIL" /\ cpu.state = "Halt"
    /\ cpu.panicked /\ cpu.cycles = 1

\* ------------------------------------------------------------------------
\* The processor port, the peripheral windows and color RAM (BusSpec)
\* ------------------------------------------------------------------------

\* A decoder write to address 0 or 1 has just been applied
PortWriteStep == ops' = ops + 1 /\ last_op'.op = "write" /\ last_op'.addr \in {0, 1}

\* C21: write_byte(0, v) changes only the CPU's data direction register and
\* write_byte(1, v) only its dataport: RAM (cells 0 and 1 included), color RAM,
\* the ROM images and every peripheral register are as they were before.
C21_PortWritesStayInCpu ==
    [][PortWriteStep =>
         /\ ram' = ram /\ color_ram' = color_ram
         /\ kernal_rom' = kernal_rom /\ basic_rom' = basic_rom /\ char_rom' = char_rom
         /\ vic' = vic /\ sid' = sid /\ cia_1' = cia_1 /\ cia_2' = cia_2
         /\ fatal' = fatal
         /\ cpu' = IF last_op'.addr = 0
                   THEN [cpu EXCEPT !.data_direction_reg = last_op'.value]
                   ELSE [cpu EXCEPT !.dataport = cpu'.dataport]]_vars

\* Both port writes have been applied and changed both registers
C21_Witness ==
    /\ ops = 2 /\ last_op = [op |-> "write", addr |-> 1, value |-> 5]
    /\ cpu.data_direction_reg = \hFF /\ cpu.dataport = 5
    /\ ram.ovl = <<>> /\ ~fatal

\* The four peripheral windows of the decoder
InVicWindow(a) == a >= VIC_MIN_CONTROL_ADDR /\ a <= VIC_MAX_CONTROL_ADDR
InSidWindow(a) == a >= SID_MIN_CONTROL_ADDR /\ a <= SID_MAX_CONTROL_ADDR
InCia1Window(a) == a >= CIA1_MIN_CONTROL_ADDR /\ a <= CIA1_MAX_CONTROL_ADDR
InCia2Window(a) == a >= CIA2_MIN_CONTROL_ADDR /\ a <= CIA2_MAX_CONTROL_ADDR

\* The first address of a's window that names the same register under the
\* mirroring rule: register (a - base) mod 64, 32, 16, 16
MirrorBase(a) ==
    CASE InVicWindow(a) ->
           VIC_MIN_CONTROL_ADDR + ((a - VIC_MIN_CONTROL_ADDR) % VIC_CONTROL_REG_COUNT)
      [] InSidWindow(a) ->
           SID_MIN_CONTROL_ADDR + ((a - SID_MIN_CONTROL_ADDR) % SID_CONTROL_REG_COUNT)
      [] InCia1Window(a) ->
           CIA1_MIN_CONTROL_ADDR + ((a - CIA1_MIN_CONTROL_ADDR) % CIA_CONTROL_REG_COUNT)
      [] OTHER ->
           CIA2_MIN_CONTROL_ADDR + ((a - CIA2_MIN_CONTROL_ADDR) % CIA_CONTROL_REG_COUNT)

\* C22: with I/O visible, every address the decoder routes to a peripheral is
\* accepted without a fatal error and names register (A - base) mod window
\* (64 VIC, 32 SID, 16 for each CIA): the access succeeds and a read returns
\* what the read of the window's first image of that register returns.
C22_PeripheralWindows ==
    (/\ last_op.op \in {"read", "write"}
     /\ \/ InVicWindow(last_op.addr) \/ InSidWindow(last_op.addr)
        \/ InCia1Window(last_op.addr) \/ InCia2Window(last_op.addr)
     /\ (cpu.dataport % 8) \in {5, 6, 7}) =>
        /\ ~fatal
        /\ last_op.op = "read" =>
              last_op.value = read_byte(bus_now, MirrorBase(last_op.addr))

InColorRam(a) == a >= COLOR_RAM_START /\ a <= COLOR_RAM_END

\* Every cell of color RAM holds a 4-bit value
ColorCellsAreNibbles ==
    /\ color_ram.fill \in 0..15
    /\ \A k \in DOMAIN color_ram.ovl : k \in 0..1023 /\ color_ram.ovl[k] \in 0..15

\* A decoder access to the color RAM window made with I/O visible
ColorRamStep ==
    /\ ops' = ops + 1 /\ InColorRam(last_op'.addr)
    /\ (cpu.dataport % 8) \in {5, 6, 7}

\* C23: every color-RAM cell always holds a value in 0..=15, and with I/O visible
\* a read or write of A in 0xD800..=0xDBFF reaches color-RAM cell A - 0xD800 (a
\* write stores v AND 0x0F there, a read returns the cell) and leaves every other
\* cell and the SID as they were.
C23_ColorRam ==
    /\ []ColorCellsAreNibbles
    /\ [][ColorRamStep =>
            /\ ~fatal' /\ sid' = sid
            /\ last_op'.op = "write" =>
                  color_ram' = ImgSet(color_ram, last_op'.addr - \hD800,
                                      last_op'.value % 16)
            /\ last_op'.op = "read" =>
                  /\ color_ram' = color_ram
                  /\ last_op'.value = ImgAt(color_ram, last_op'.addr - \hD800)]_vars

\* The last cell has been written with 0x5A and read back as 0x0A
C23_Witness ==
    /\ ops = 2 /\ last_op = [op |-> "read", addr |-> \hDBFF, value |-> \h0A]
    /\ ImgAt(color_ram, 1023) = \h0A /\ ImgAt(color_ram, 0) = 0
    /\ (cpu.dataport % 8) \in {5, 6, 7}

\* ------------------------------------------------------------------------
\* Where the next opcode comes from (Spec)
\* ------------------------------------------------------------------------

\* The program opens with a branch, or with a two-cycle immediate instruction
\* followed by a branch
BranchFirst == Len(program) = 3 /\ program[1] \in BranchCodes
BranchSecond == Len(program) \in {4, 5} /\ program[3] \in BranchCodes

\* The branch's address S, its opcode and offset bytes, and the number of cycle()
\* calls after which it has completed
BranchSite == IF BranchFirst THEN RESET_VECTOR_ADDR ELSE RESET_VECTOR_ADDR + 2
BranchCode == IF BranchFirst THEN program[1] ELSE program[3]
BranchOffset == IF BranchFirst THEN program[2] ELSE program[4]
BranchDone == IF BranchFirst THEN 2 ELSE 4

\* (S + 2 + signed(o)) mod 65536
BranchTarget ==
    IF BranchOffset < 128 THEN (BranchSite + 2 + BranchOffset) % 65536
    ELSE (BranchSite + 2 + BranchOffset - 256) % 65536

\* C24: for each of the eight branches at S with offset byte o: when the
\* condition is false the next opcode is fetched from S + 2 with PC = S + 2, and
\* when it is true from (S + 2 + signed(o)) mod 65536 with PC equal to it.
C24_BranchTargets ==
    ((BranchFirst \/ BranchSecond) /\ cpu.cycles = BranchDone /\ ~cpu.panicked) =>
        /\ cpu.state = "Fetch"
        /\ cpu.curr_op = Opcode_from_u8(BranchCode)
        /\ cpu.pc = IF BranchTaken(cpu.curr_op, cpu.sr) THEN BranchTarget
                    ELSE BranchSite + 2
        /\ cpu.addr_bus = cpu.pc /\ cpu.rw

\* The pointer operand of the JMP (indirect) that opens the program, and the
\* word it designates: low byte at ptr, high byte from the same page
JmpPointer == program[2] + 256 * program[3]
JmpPointerWord ==
    ImgAt(ram, JmpPointer)
      + 256 * ImgAt(ram, BitOr(BitAnd(JmpPointer, \hFF00), BitAnd(JmpPointer + 1, \hFF)))

\* C25: JMP (ptr), opcode 0x6C, sets PC to the 16-bit word stored at ptr, whose
\* low byte is read from ptr and whose high byte is read from
\* (ptr AND 0xFF00) OR ((ptr + 1) AND 0xFF); it does not set PC to ptr.
C25_JmpIndirect ==
    (/\ Len(program) = 3 /\ program[1] = \h6C
     /\ cpu.curr_op = "JMP" /\ cpu.state = "Fetch" /\ ~cpu.panicked) =>
        /\ cpu.pc = JmpPointerWord
        /\ cpu.addr_bus = cpu.pc

\* ------------------------------------------------------------------------
\* Register arithmetic at the ends of the address space (StackSpec)
\* ------------------------------------------------------------------------

StartsWithBcs == ImgAt(ram, StartAddr) = \hB0

\* The fatal errors that are not arithmetic: an opcode the interpreter does not
\* implement, KIL, and RTI
NonArithmeticPanics == {"UNIMPLEMENTED", "KIL", "RTI"}

\* C26: no arithmetic on PC, SP, A, X, Y or the address bus is ever fatal: PC
\* wraps modulo 65536, also for an instruction at the top of memory and for every
\* branch, and SP wraps modulo 256 on every push and pull; each register stays
\* within its width.
C26_ArithmeticWraps ==
    /\ cpu.panicked => cpu.curr_op \in NonArithmeticPanics
    /\ cpu.pc \in 0..65535 /\ cpu.addr_bus \in 0..65535 /\ cpu.sp \in 0..255
    /\ cpu.a \in 0..255 /\ cpu.x \in 0..255 /\ cpu.y \in 0..255

\* ------------------------------------------------------------------------
\* main: the host loop, the emulator thread and the two channels (main.rs)
\* ------------------------------------------------------------------------

\* events the SDL event pump may deliver in a run, and passes of the clock loop
\* a run may make (two frames take 2 * 63 * 101 = 12726 passes)
MaxEvents == 2
MaxHostTicks == 12730
\* passes a session with the debugger on may make
MaxDebugTicks == 4

\* the passes a run may make
PassLimit == IF mode = "Run" THEN MaxHostTicks ELSE MaxDebugTicks

\* What `events.poll_iter()` can yield
HostEvents == {"Quit", "Key", "Other"}

\* The KERNAL images of the runs: a program that loops for ever (JMP to itself)
\* and one that ends the emulator thread (an opcode cycle() panics on)
HostPrograms ==
    {<<\h4C, RESET_VECTOR_ADDR % 256, RESET_VECTOR_ADDR \div 256>>, <<\h02>>}

\* the emulator thread has ended (a panic unwound out of Bus::run), which drops
\* event_rx and screen_tx
EmulatorGone == fatal \/ cpu.panicked

\* main has spawned the emulator thread and enters its loop; `polled` counts the
\* events the pump has yielded
HostInit ==
    /\ program \in HostPrograms
    /\ overflow_checks \in BOOLEAN
    /\ ram = ImgNew(0)
    /\ cpu = reset(Cpu_new)
    /\ kernal_rom = ImgLoad(ImgNew(\hEA), RESET_VECTOR_ADDR - KERNAL_ROM_START, program, 1)
    /\ basic_rom = BasicImage /\ char_rom = CharImage
    /\ color_ram = NoImage
    /\ vic = Vic_new /\ sid = Sid_new
    /\ cia_1 = Cia_new(CIA1_MIN_CONTROL_ADDR) /\ cia_2 = Cia_new(CIA2_MIN_CONTROL_ADDR)
    /\ fatal = FALSE
    /\ last_op = NoOp
    /\ ops = 0 /\ screen = {} /\ frames = <<>> /\ run_cycles = 0
    /\ host = [at |-> "poll", quit |-> FALSE, panicked |-> FALSE, polled |-> 0]
    /\ emu_at = "top" /\ mode = "Run"
    /\ input_events = <<>>

EmulatorIdle ==
    UNCHANGED <<cpu, ram, program, overflow_checks, kernal_rom, basic_rom, char_rom,
                color_ram, vic, sid, cia_1, cia_2, fatal, last_op, ops, screen,
                run_cycles, emu_at, mode>>

\* One step of `for event in events.poll_iter()` (main.rs:247-270): the pump
\* yields an event, or nothing, which ends the `for`.  Quit is sent with
\* `.unwrap()` and breaks out of the `for`, not out of the loop; a key is sent
\* and the `for` goes on; a send to the dropped receiver panics.
HostPoll ==
    /\ host.at = "poll"
    /\ \/ /\ host.polled < MaxEvents
          /\ \E e \in HostEvents :
                IF e = "Other"
                THEN /\ host' = [host EXCEPT !.polled = @ + 1]
                     /\ input_events' = input_events
                ELSE IF EmulatorGone
                THEN /\ host' = [host EXCEPT !.polled = @ + 1, !.at = "stopped",
                                             !.panicked = TRUE,
                                             !.quit = @ \/ e = "Quit"]
                     /\ input_events' = input_events
                ELSE /\ host' = [host EXCEPT !.polled = @ + 1,
                                             !.at = IF e = "Quit" THEN "recv" ELSE "poll",
                                             !.quit = @ \/ e = "Quit"]
                     /\ input_events' = Append(input_events, e)
       \/ /\ host' = [host EXCEPT !.at = "recv"]
          /\ input_events' = input_events
    /\ frames' = frames
    /\ EmulatorIdle

\* `screen_rx.recv()` (main.rs:272-276): blocks while the queue is empty and the
\* sender lives; Err (queue empty, sender dropped) breaks the loop; a frame is
\* presented and the loop starts over
HostRecv ==
    /\ host.at = "recv"
    /\ \/ /\ frames # <<>>
          /\ frames' = Tail(frames)
          /\ host' = [host EXCEPT !.at = "poll"]
       \/ /\ frames = <<>> /\ EmulatorGone
          /\ frames' = frames
          /\ host' = [host EXCEPT !.at = "stopped"]
    /\ input_events' = input_events
    /\ EmulatorIdle

\* The top of a pass of Bus::run's loop: the try_recv.  The process ends when
\* main returns or panics.
EmulatorRecv ==
    /\ ~EmulatorGone /\ host.at # "stopped"
    /\ emu_at = "top" /\ vic.cycles < PassLimit
    /\ input_events' = try_recv(input_events)
    /\ emu_at' = "body"
    /\ UNCHANGED <<cpu, ram, program, overflow_checks, kernal_rom, basic_rom, char_rom,
                   color_ram, vic, sid, cia_1, cia_2, fatal, last_op, ops, screen,
                   frames, run_cycles, host, mode>>

\* The machine's part of the pass (bus.rs:246-288).  The thread then waits for a
\* line in DebugStep mode; in the other modes it goes on to the end of the pass,
\* in Run mode after the `sleep(idle_time)` of the throttle (bus.rs:327-329).
EmulatorTick ==
    /\ ~EmulatorGone /\ host.at # "stopped"
    /\ emu_at = "body"
    /\ Compute(FALSE)
    /\ emu_at' = IF fatal' \/ cpu'.panicked THEN "top"
                 ELSE IF mode = "DebugStep" THEN "stdin" ELSE "send"
    /\ UNCHANGED <<host, input_events, program, overflow_checks, ops, mode, frames,
                   run_cycles>>

\* The operator types a line, or stdin fails (bus.rs:307-325)
EmulatorStdin ==
    /\ ~EmulatorGone /\ host.at # "stopped"
    /\ emu_at = "stdin"
    /\ \E line \in StdinLines :
          /\ fatal' = (line = StdinError)
          /\ mode' = IF fatal' THEN mode ELSE debug_command(mode, line)
          /\ emu_at' = IF fatal' THEN "top" ELSE "send"
    /\ UNCHANGED <<cpu, ram, color_ram, kernal_rom, basic_rom, char_rom, vic, sid,
                   cia_1, cia_2, last_op, screen, frames, run_cycles, host,
                   input_events, program, overflow_checks, ops>>

\* The end of the pass (bus.rs:333-341): a finished frame is sent with the
\* non-blocking `screen_tx.send`, else `cycles` is counted
EmulatorSend ==
    /\ ~EmulatorGone /\ host.at # "stopped"
    /\ emu_at = "send"
    /\ frames' = send_frame(vic, screen, frames)
    /\ run_cycles' = count_cycle(vic, run_cycles)
    /\ emu_at' = "top"
    /\ UNCHANGED <<cpu, ram, color_ram, kernal_rom, basic_rom, char_rom, vic, sid,
                   cia_1, cia_2, fatal, last_op, screen, host, input_events, program,
                   overflow_checks, ops, mode>>

HostNext == HostPoll \/ HostRecv \/ EmulatorRecv \/ EmulatorTick \/ EmulatorSend

HostSpec == HostInit /\ [][HostNext]_vars

\* The same machine started with the debugger on (`Bus::new(true)`)
DebugInit ==
    /\ program \in HostPrograms
    /\ overflow_checks \in BOOLEAN
    /\ ram = ImgNew(0)
    /\ cpu = reset(Cpu_new)
    /\ kernal_rom = ImgLoad(ImgNew(\hEA), RESET_VECTOR_ADDR - KERNAL_ROM_START, program, 1)
    /\ basic_rom = BasicImage /\ char_rom = CharImage
    /\ color_ram = NoImage
    /\ vic = Vic_new /\ sid = Sid_new
    /\ cia_1 = Cia_new(CIA1_MIN_CONTROL_ADDR) /\ cia_2 = Cia_new(CIA2_MIN_CONTROL_ADDR)
    /\ fatal = FALSE
    /\ last_op = NoOp
    /\ ops = 0 /\ screen = {} /\ frames = <<>> /\ run_cycles = 0
    /\ host = [at |-> "poll", quit |-> FALSE, panicked |-> FALSE, polled |-> 0]
    /\ emu_at = "top" /\ mode = "DebugStep"
    /\ input_events = <<>>

DebugNext ==
    \/ HostPoll \/ HostRecv
    \/ EmulatorRecv \/ EmulatorTick \/ EmulatorStdin \/ EmulatorSend

DebugSpec == DebugInit /\ [][DebugNext]_vars

\* Both threads are scheduled by the operating system: neither is starved.  The
\* operator at the debugger's prompt is under no obligation to type.
HostFairSpec ==
    DebugSpec /\ WF_vars(HostPoll) /\ WF_vars(HostRecv)
              /\ WF_vars(EmulatorRecv) /\ WF_vars(EmulatorTick)
              /\ WF_vars(EmulatorSend)

HostStopped == host.at = "stopped"

\* the session has made all the passes checked
OutOfPasses == vic.cycles >= PassLimit

\* C27: once the host loop has received a Quit event it eventually stops (leaves
\* its loop), whether or not the emulator sends another frame.  A session cut
\* short by the number of passes checked is not held against the claim.
C27_QuitStopsHost == host.quit ~> (HostStopped \/ OutOfPasses)

\* C28: the emulator's send of a finished frame blocks until the host takes it:
\* at no time is more than one frame sent on the frames channel and not yet
\* received by the host.
C28_FrameSendBlocks == Len(frames) <= 1

\* A straight-line program: one non-jump, non-branch instruction at S, the reset
\* vector address, followed by KIL bytes
StraightLine == Len(program) = 6

\* C29: for every non-jump, non-branch instruction at S with L operand bytes the
\* next opcode is fetched from S + 1 + L: when the CPU is back in Fetch, PC and
\* the address bus are S + 1 + L, and the opcode that halts the CPU was taken
\* from S + 1 + L (PC is one past it).
C29_NextOpcodeAddress ==
    (StraightLine /\ cpu.cycles >= 1 /\ ~cpu.panicked) =>
        /\ cpu.state = "Fetch" =>
              /\ cpu.pc = RESET_VECTOR_ADDR + 1 + OperandBytes(program[1])
              /\ cpu.addr_bus = cpu.pc
        /\ cpu.state = "Halt" =>
              cpu.pc = RESET_VECTOR_ADDR + 2 + OperandBytes(program[1])

\* LDY #y ; LDA (zp),Y from reset: the index, the pointer bytes and the address
\* the operand is to be read from, ((hi * 256 + lo) + Y) mod 65536
IndirectY == Len(program) = 4 /\ program[1] = \hA0 /\ program[3] = \hB1
IndexY == program[2]
PointerLo == ImgAt(ram, program[4])
PointerHi == ImgAt(ram, (program[4] + 1) % 256)
IndirectYTarget == (PointerHi * 256 + PointerLo + IndexY) % 65536

\* The cycle() call that completes the LDA: 2 for the LDY, then 5, or 6 when
\* lo + Y carries into the high byte
IndirectYDone == IF PointerLo + IndexY > 255 THEN 8 ELSE 7

\* C30: (zp),Y with pointer bytes lo and hi reads its operand from
\* ((hi * 256 + lo) + Y) mod 65536, and the read instruction takes 5 cycle() calls
\* when lo + Y <= 0xFF and 6 when lo + Y > 0xFF.
C30_IndirectIndexedY ==
    (IndirectY /\ ~cpu.panicked) =>
        /\ (cpu.curr_op = "LDA" /\ cpu.state = "Load") =>
              cpu.addr_bus = IndirectYTarget /\ cpu.rw
        /\ cpu.cycles \in 3..(IndirectYDone - 1) => cpu.state # "Fetch"
        /\ cpu.cycles = IndirectYDone => cpu.state = "Fetch" /\ cpu.curr_op = "LDA"

\* ------------------------------------------------------------------------
\* Arithmetic, shifts, comparisons and flags (AluSpec): the test driver with
\* programs that load the operands and then run one instruction
\* ------------------------------------------------------------------------

\* Operand values: zero, one, bit 6, the largest positive, the sign bit, all ones
AluBytes == {\h00, \h01, \h40, \h7F, \h80, \hFF}

\* LDA #a ; CLC or SEC ; ADC #m or SBC #m
AddPrograms ==
    {<<\hA9, a, c, op, m>> : a \in AluBytes, c \in {\h18, \h38}, op \in {\h69, \hE9},
                             m \in AluBytes}

\* LDA #a ; ASL / LSR / ROL / ROR on the accumulator ; NOP, and the absolute forms
\* on the byte that follows the instruction
ShiftPrograms ==
       {<<\hA9, a, op, \hEA>> : a \in AluBytes, op \in {\h0A, \h4A, \h2A, \h6A}}
  \cup {<<op, (RESET_VECTOR_ADDR + 3) % 256, (RESET_VECTOR_ADDR + 3) \div 256, m>> :
            op \in {\h0E, \h4E, \h2E, \h6E}, m \in AluBytes}

\* LDA / LDX / LDY #r ; CMP / CPX / CPY #m
ComparePrograms ==
    {<<ld[1], r, ld[2], m>> : ld \in {<<\hA9, \hC9>>, <<\hA2, \hE0>>, <<\hA0, \hC0>>},
                              r \in AluBytes, m \in AluBytes}

\* Loads; LDA / LDX / LDY #v and a transfer, increment or decrement of a register;
\* LDA #a and AND / ORA / EOR #m; INC / DEC of the byte that follows the instruction
FlagPrograms ==
       {<<ld, v>> : ld \in {\hA9, \hA2, \hA0}, v \in AluBytes}
  \cup {<<\hA9, v, op, \hEA>> : v \in AluBytes, op \in {\hAA, \hA8}}
  \cup {<<\hA2, v, op, \hEA>> : v \in AluBytes, op \in {\h8A, \hE8, \hCA}}
  \cup {<<\hA0, v, op, \hEA>> : v \in AluBytes, op \in {\h98, \hC8, \h88}}
  \cup {<<\hA2, v, \h9A, \hBA, \hEA>> : v \in AluBytes}
  \cup {<<\hA9, a, op, m>> : a \in AluBytes, op \in {\h29, \h09, \h49}, m \in AluBytes}
  \cup {<<op, (RESET_VECTOR_ADDR + 3) % 256, (RESET_VECTOR_ADDR + 3) \div 256, m>> :
            op \in {\hEE, \hCE}, m \in AluBytes}

\* LDA #a ; BIT on the byte that follows the instruction
BitPrograms ==
    {<<\hA9, a, \h2C, (RESET_VECTOR_ADDR + 5) % 256, (RESET_VECTOR_ADDR + 5) \div 256, m>> :
        a \in AluBytes, m \in AluBytes}

\* A store instruction alone (as in sta_zp_test_cycles .. sty_abs_test_cycles),
\* and LDA #v ; STA $0200
StoreCodes ==
    {\h85, \h95, \h8D, \h9D, \h99, \h81, \h91, \h86, \h96, \h8E, \h84, \h94, \h8C}
StorePrograms ==
    {<<op, \h00>> : op \in StoreCodes \ {\h8D, \h9D, \h99, \h8E, \h8C}}
    \cup {<<op, \h00, \h0F>> : op \in {\h8D, \h9D, \h99, \h8E, \h8C}}
    \cup {<<\hA9, v, \h8D, \h00, \h02>> : v \in AluBytes}

\* Every opcode byte alone
DecodePrograms == {<<op>> : op \in 0..255}

AluPrograms ==
    AddPrograms \cup ShiftPrograms \cup ComparePrograms \cup FlagPrograms
    \cup BitPrograms \cup StorePrograms \cup DecodePrograms

AluInit ==
    /\ program \in AluPrograms
    /\ overflow_checks \in BOOLEAN
    /\ ram = ImgLoad(ImgNew(HarnessFill(program)), RESET_VECTOR_ADDR, program, 1)
    /\ cpu = reset(Cpu_new)
    /\ kernal_rom = NoImage /\ basic_rom = NoImage /\ char_rom = NoImage
    /\ color_ram = NoImage
    /\ vic = Vic_new /\ sid = Sid_new
    /\ cia_1 = Cia_new(CIA1_MIN_CONTROL_ADDR) /\ cia_2 = Cia_new(CIA2_MIN_CONTROL_ADDR)
    /\ fatal = FALSE
    /\ last_op = NoOp
    /\ ops = 0 /\ screen = {} /\ frames = <<>> /\ run_cycles = 0
    /\ host = NoHost /\ emu_at = "top" /\ mode = "Run" /\ input_events = <<>>

AluSpec == AluInit /\ [][Next]_vars

\* LDA #a ; CLC / SEC ; ADC / SBC #m has completed
AddProgram == Len(program) = 5 /\ program[4] \in {\h69, \hE9}
AddDone == AddProgram /\ cpu.cycles = 5 /\ ~cpu.panicked

\* The operands: A, the carry-in, and M (for SBC, M XOR 0xFF)
AddA == program[2]
AddCarryIn == IF program[3] = \h38 THEN 1 ELSE 0
AddM == IF program[4] = \h69 THEN program[5] ELSE 255 - program[5]
AddSum == AddA + AddM + AddCarryIn

\* C31: with the decimal flag clear ADC leaves A' = (A + M + C) mod 256, carry =
\* (A + M + C > 255), V = 1 iff A and M have the same sign and A' the other,
\* N = bit 7 of A', Z = (A' = 0); SBC is ADC applied to M XOR 0xFF.
C31_AdcSbc ==
    AddDone =>
        /\ cpu.a = AddSum % 256
        /\ cpu.sr.carry = (AddSum > 255)
        /\ cpu.sr.overflow = (/\ (AddA >= 128) = (AddM >= 128)
                              /\ (AddSum % 256 >= 128) # (AddA >= 128))
        /\ cpu.sr.negative = (AddSum % 256 >= 128)
        /\ cpu.sr.zero_result = (AddSum % 256 = 0)

\* The shift and rotate programs: on the accumulator (done when the Implied cycle
\* has run) and on memory (done when the CPU is back in Fetch after the store)
ShiftCodesA == {\h0A, \h4A, \h2A, \h6A}
ShiftCodesM == {\h0E, \h4E, \h2E, \h6E}
ShiftOnA == Len(program) = 4 /\ program[1] = \hA9 /\ program[3] \in ShiftCodesA
ShiftOnM == Len(program) = 4 /\ program[1] \in ShiftCodesM
ShiftDone ==
    /\ ~cpu.panicked
    /\ \/ ShiftOnA /\ cpu.cycles = 4
       \/ ShiftOnM /\ cpu.cycles = 6 /\ cpu.state = "Fetch"

\* The opcode and the original operand value
ShiftCode == IF ShiftOnA THEN program[3] ELSE program[1]
ShiftOperand == IF ShiftOnA THEN program[2] ELSE program[4]

\* The bit shifted out: bit 7 for ASL and ROL, bit 0 for LSR and ROR
ShiftedOut ==
    IF ShiftCode \in {\h0A, \h0E, \h2A, \h2E} THEN ShiftOperand >= 128
    ELSE ShiftOperand % 2 = 1

\* C32: for ASL, LSR, ROL and ROR, on the accumulator and on memory and for every
\* operand value, the carry flag after the instruction equals the bit shifted out
\* of the operand: bit 7 for ASL and ROL, bit 0 for LSR and ROR.
C32_ShiftCarry == ShiftDone => cpu.sr.carry = ShiftedOut

\* The compare programs: load a register, compare it with an immediate operand
CompareProgram == Len(program) = 4 /\ program[3] \in {\hC9, \hE0, \hC0}
CompareDone == CompareProgram /\ cpu.cycles = 4 /\ ~cpu.panicked
CompareR == program[2]
CompareM == program[4]
CompareRegister ==
    IF program[3] = \hC9 THEN cpu.a ELSE IF program[3] = \hE0 THEN cpu.x ELSE cpu.y

\* C33: after CMP, CPX and CPY of register R with operand M, carry = (R >= M),
\* zero = (R = M), negative = bit 7 of (R - M) mod 256, also when the difference
\* is exactly 0x80, and the register is unchanged.
C33_Compare ==
    CompareDone =>
        /\ cpu.sr.carry = (CompareR >= CompareM)
        /\ cpu.sr.zero_result = (CompareR = CompareM)
        /\ cpu.sr.negative = ((CompareR - CompareM + 256) % 256 >= 128)
        /\ CompareRegister = CompareR

\* The programs whose last instruction sets N and Z from its result: loads,
\* transfers, register increments and decrements, the logic operations, and
\* INC / DEC on memory
FlagLoad == Len(program) = 2 /\ program[1] \in {\hA9, \hA2, \hA0}
FlagImplied ==
    /\ Len(program) = 4
    /\ program[1] \in {\hA9, \hA2, \hA0}
    /\ program[3] \in {\hAA, \hA8, \h8A, \hE8, \hCA, \h98, \hC8, \h88}
FlagTsx == Len(program) = 5 /\ program[3] = \h9A /\ program[4] = \hBA
FlagLogic == Len(program) = 4 /\ program[1] = \hA9 /\ program[3] \in {\h29, \h09, \h49}
FlagMemory == Len(program) = 4 /\ program[1] \in {\hEE, \hCE}
FlagDone ==
    /\ ~cpu.panicked
    /\ \/ FlagLoad /\ cpu.cycles = 2
       \/ FlagImplied /\ cpu.cycles = 4
       \/ FlagTsx /\ cpu.cycles = 5
       \/ FlagLogic /\ cpu.cycles = 4
       \/ FlagMemory /\ cpu.cycles = 6 /\ cpu.state = "Fetch"

\* The value the last instruction produces, computed from the program's bytes
FlagNew ==
    IF FlagLoad \/ FlagTsx THEN program[2]
    ELSE IF FlagImplied THEN
        IF program[3] \in {\hE8, \hC8} THEN (program[2] + 1) % 256
        ELSE IF program[3] \in {\hCA, \h88} THEN (program[2] + 255) % 256
        ELSE program[2]
    ELSE IF FlagLogic THEN
        IF program[3] = \h29 THEN BitAnd(program[2], program[4])
        ELSE IF program[3] = \h09 THEN BitOr(program[2], program[4])
        ELSE BitXor(program[2], program[4])
    ELSE IF program[1] = \hEE THEN (program[4] + 1) % 256
    ELSE (program[4] + 255) % 256

\* Where the last instruction leaves its result
FlagResult ==
    IF FlagLoad THEN
        IF program[1] = \hA9 THEN cpu.a ELSE IF program[1] = \hA2 THEN cpu.x ELSE cpu.y
    ELSE IF FlagTsx THEN cpu.x
    ELSE IF FlagImplied THEN
        IF program[3] \in {\hAA, \hE8, \hCA} THEN cpu.x
        ELSE IF program[3] \in {\hA8, \hC8, \h88} THEN cpu.y
        ELSE cpu.a
    ELSE IF FlagLogic THEN cpu.a
    ELSE ImgAt(ram, RESET_VECTOR_ADDR + 3)

\* C34: after LDA, LDX, LDY, TAX, TAY, TSX, TXA, TYA, INX, INY, DEX, DEY, AND,
\* ORA, EOR and INC / DEC on memory, the result is the new value, N is its bit 7
\* and Z says whether it is zero; for INC / DEC the new value is the byte
\* written back.
C34_ResultFlags ==
    FlagDone =>
        /\ FlagResult = FlagNew
        /\ cpu.sr.negative = (FlagNew >= 128)
        /\ cpu.sr.zero_result = (FlagNew = 0)

\* The BIT programs: LDA #a; BIT on the absolute address of an operand byte m
BitProgram == Len(program) = 6 /\ program[3] = \h2C
BitDone == BitProgram /\ cpu.cycles = 6 /\ ~cpu.panicked
BitA == program[2]
BitM == program[6]

\* C40: BIT leaves A, X, Y, SP and memory unchanged and sets Z = ((A AND M) = 0),
\* N = bit 7 of M, V = bit 6 of M.
C40_Bit ==
    BitDone =>
        /\ cpu.a = BitA
        /\ cpu.x = reset(Cpu_new).x /\ cpu.y = reset(Cpu_new).y
        /\ cpu.sp = reset(Cpu_new).sp
        /\ ram = ImgLoad(ImgNew(HarnessFill(program)), RESET_VECTOR_ADDR, program, 1)
        /\ cpu.sr.zero_result = (BitAnd(BitA, BitM) = 0)
        /\ cpu.sr.negative = (BitM >= 128)
        /\ cpu.sr.overflow = ((BitM \div 64) % 2 = 1)

\* A store program: the store alone, or LDA #v ; STA $0200
StoreAlone == Len(program) \in {2, 3} /\ program[1] \in StoreCodes
StoreAfterLoad == Len(program) = 5 /\ program[3] = \h8D
StoreCode == IF StoreAlone THEN program[1] ELSE program[3]

\* The reference 6502 cycle count of a store, by addressing mode
StoreCycles(code) ==
    IF code \in {\h85, \h86, \h84} THEN 3
    ELSE IF code \in {\h95, \h96, \h94, \h8D, \h8E, \h8C} THEN 4
    ELSE IF code \in {\h9D, \h99} THEN 5
    ELSE 6

\* The cycle count at which the program's store is due to have completed
StoreDue == IF StoreAlone THEN StoreCycles(StoreCode) ELSE 2 + StoreCycles(StoreCode)

\* C35: STA, STX and STY write the register to the effective address (LDA #v;
\* STA $0200 ends with RAM[0x0200] = v) and the CPU is back in Fetch after the
\* reference cycle count: 3 zeropage, 4 zeropage-indexed, 4 absolute, 5 STA
\* absolute,X / absolute,Y, 6 STA (indirect,X) / (indirect),Y.
C35_Stores ==
    ((StoreAlone \/ StoreAfterLoad) /\ cpu.cycles = StoreDue /\ ~cpu.panicked) =>
        /\ cpu.state = "Fetch"
        /\ StoreAfterLoad => ImgAt(ram, \h0200) = program[2]

\* The documented opcodes by the state their reference addressing mode starts
\* in (a relative branch reads its operand like an immediate one; the
\* accumulator forms are implied)
ReferenceModes ==
    [Implied |-> {\h00, \h40, \h60, \h0A, \h2A, \h4A, \h6A, \h8A, \h9A, \hAA, \hBA, \hCA, \hEA}
                 \cup {16 * row + 8 : row \in 0..15},
     Immediate |-> {\h09, \h29, \h49, \h69, \hA9, \hC9, \hE9, \hA0, \hA2, \hC0, \hE0}
                   \cup {32 * k + 16 : k \in 0..7},
     AddressZeropage |-> {\h24, \h84, \hA4, \hC4, \hE4}
                         \cup {32 * k + 5 : k \in 0..7} \cup {32 * k + 6 : k \in 0..7},
     AddressZeropageX |-> {\h94, \hB4, \h16, \h36, \h56, \h76, \hD6, \hF6}
                          \cup {32 * k + 21 : k \in 0..7},
     AddressZeropageY |-> {\h96, \hB6},
     AddressLo |-> {\h20, \h4C, \h2C, \h8C, \hAC, \hCC, \hEC}
                   \cup {32 * k + 13 : k \in 0..7} \cup {32 * k + 14 : k \in 0..7},
     AddressLoX |-> {\hBC, \h1E, \h3E, \h5E, \h7E, \hDE, \hFE}
                    \cup {32 * k + 29 : k \in 0..7},
     AddressLoY |-> {\hBE} \cup {32 * k + 25 : k \in 0..7},
     AddressIndexedIndirect |-> {32 * k + 1 : k \in 0..7},
     AddressIndirectIndexed |-> {32 * k + 17 : k \in 0..7},
     AddressIndirect |-> {\h6C}]

Documented == UNION {ReferenceModes[m] : m \in DOMAIN ReferenceModes}
ReferenceMode(code) == CHOOSE m \in DOMAIN ReferenceModes : code \in ReferenceModes[m]

\* The program is one opcode byte, and the CPU has decoded it
DecodeProgram == Len(program) = 1
Decoded == DecodeProgram /\ cpu.cycles = 1 /\ ~cpu.panicked

\* C36: decoding is total, no opcode byte 0x00..0xFF makes the decoder fail, and
\* every documented opcode is decoded to its reference addressing mode; LDX
\* zeropage,Y (0xB6) and STX zeropage,Y (0x96) to zeropage,Y and LDX absolute,Y
\* (0xBE) to absolute,Y.
C36_Decode ==
    DecodeProgram =>
        /\ cpu.cycles = 0 => ~cpu.panicked
        /\ (Decoded /\ program[1] \in Documented) => cpu.state = ReferenceMode(program[1])

\* The word on the stack when the scenario's RTS is decoded: the two cells the JSR
\* pushed, high byte at 0x0100 + SP before the JSR, low byte one below
ReturnWord ==
    256 * ImgAt(ram, STACK_START_ADDR + SpBeforeJsr)
    + ImgAt(ram, STACK_START_ADDR + Wrap8(SpBeforeJsr + 255))

\* C37: whenever the CPU is in Fetch, stack_word_ready is false; so every RTS,
\* also one after a BRK, pulls two bytes: SP ends 2 above its value when the RTS
\* was fetched and PC is the word in those two cells.
C37_PullFlagClearInFetch ==
    /\ (cpu.state = "Fetch" /\ ~cpu.panicked) => ~cpu.stack_word_ready
    /\ ((StartsWithJsr \/ StartsWithBrk) /\ Completed("RTS")) =>
          /\ cpu.sp = SpBeforeJsr
          /\ cpu.pc = ReturnWord

\* The VIC's pins as the clock loop samples them after the rising edge
PinsReleased == vic_aec(vic) /\ vic_rdy(vic) /\ vic_irq(vic)

\* A pass of the loop that does not end the process has run cycle() once
OneCyclePerTick == fatal' \/ cpu'.panicked \/ cpu'.cycles = cpu.cycles + 1

\* C38: AEC, RDY and IRQ of the VIC read true wherever the clock loop samples
\* them; so every pass of the loop runs exactly one cycle() of the CPU, never the
\* VIC's falling edge, and never asks the CPU for an interrupt.
C38_VicPinsReleased ==
    /\ [](PinsReleased /\ ~cpu.irq)
    /\ [][OneCyclePerTick]_vars

\* Passes of the loop have run, one of them a CPU write to a VIC register
C38_Witness ==
    /\ vic.cycles = MaxTicks /\ cpu.cycles = MaxTicks
    /\ vic.regs[32] = \hF5
    /\ PinsReleased /\ ~cpu.irq

\* The pixel index the last rising edge painted
PaintedPixel == vic.regs[18] * SCREEN_X + vic.xpos

\* C39: after every rising edge of the VIC, whatever the CPU has written to its
\* registers, xpos is in 0..62 and the raster line in 0..100, and the pixel index
\* raster * 320 + xpos painted on that step is inside the 320 x 240 framebuffer.
C39_RasterInFrame ==
    /\ vic.xpos \in 0..(HORZ_CYCLE_COUNT - 1)
    /\ vic.regs[18] \in 0..RASTER_LAST
    /\ vic.cycles > 0 => Painted(screen, PaintedPixel) /\ PaintedPixel < SCREEN_X * SCREEN_Y

\* The CPU has written a line number past the last line to the raster register,
\* and the VIC has gone from the last pixel of a line to the first of the next
C39_Witness ==
    /\ vic.raster_int = \h65 /\ program[4] = \h12
    /\ vic.xpos = 0 /\ vic.regs[18] = 1
    /\ Painted(screen, PaintedPixel)
====
